---- MODULE Spec2Model ----
(***************************************************************************)
(* A state-machine model of the AITransformer retry engine of ak-gemini    *)
(* (src/index.js): prepareAndValidateMessage, rawMessage, rebuildPayload,   *)
(* initChat and getLastUsage.  One action is one synchronous stretch of a   *)
(* handler between two awaits.                                              *)
(***************************************************************************)
EXTENDS Integers, Sequences, FiniteSets, TLC

\* ------------------------------------------------------------------ bounds
\* largest maxRetries a caller passes (per call or to the constructor)
MaxRetriesBound == 2
\* number of message() call slots on the one instance
NumCalls == 2

\* -------------------------------------------------------- program constants
DEFAULT_MAX_RETRIES == 3
DEFAULT_RETRY_DELAY == 1000

Calls == 1..NumCalls
\* the slot the sequential specification drives
SeqCalls == {1}

\* retryDelay values a caller passes
RetryDelays == {100}

\* An optional argument is <<>> (undefined) or <<v>>.
Opt(S) == {<<>>} \cup {<<v>> : v \in S}

\* a ?? b
NullishCoalesce(o, d) == IF o = <<>> THEN d ELSE o[1]

\* a || b for a numeric option: undefined and 0 are falsy
OrDefault(o, d) == IF o = <<>> \/ o[1] = 0 THEN d ELSE o[1]

\* ------------------------------------------------------------------ errors
\* A thrown value: an Error with a message (a sequence of text fragments), a
\* string, or null/undefined.
Err(m) == [k |-> "Error", msg |-> m]
ThrownString == [k |-> "String", msg |-> <<"String error">>]
ThrownNull == [k |-> "Null", msg |-> <<>>]
NoError == [k |-> "none", msg |-> <<>>]

\* what a validator may throw or reject with
ValidatorThrows == {Err(<<"Validation failed">>), ThrownString, ThrownNull}

\* what a validator may resolve with: the payload, true, false, null, undefined
ValidatorResolves == {"payload", "true", "false", "null", "undefined"}

\* line 697: the value the awaited validator resolves with is discarded, so
\* every one of them lets the attempt go on to line 700
ValidatorAccepts(resolved) == resolved \in ValidatorResolves

\* the error the transport (chat.sendMessage) rejects with
TransportError == Err(<<"fetch failed">>)

\* the error models.list() rejects with inside init()
ListError == Err(<<"models.list failed">>)

\* decimal rendering of the numbers that appear in messages
NumStr(n) == <<"0", "1", "2", "3", "4", "5", "6", "7", "8">>[n + 1]

\* `${error.message}`: a string has no message property
MessageOf(e) == IF e.k = "Error" THEN e.msg ELSE <<"undefined">>

\* reading .message of null or undefined throws a TypeError
MessageThrows(e) == e.k = "Null"

TypeErrorNullMessage == Err(<<"Cannot read properties of null (reading 'message')">>)

AggregateError(maxRetries, e) ==
    Err(<<"Transformation failed after ", NumStr(maxRetries + 1), " attempts. Last error: ">>
        \o MessageOf(e))

InvalidPayloadError == Err(<<"Invalid source payload. Must be a JSON object or string.">>)

NotInitializedError == Err(<<"Chat session not initialized. Please call init() first.">>)

InitFailedError(e) == Err(<<"Gemini chat initialization failed: ">> \o MessageOf(e))

ExtractionError == Err(<<"Could not extract valid JSON from model response. Response preview: ", "...">>)

JSONParseError == Err(<<"Unexpected token">>)

\* s occurs in t as a contiguous run of fragments
Contains(t, s) ==
    \E i \in 0..(Len(t) - Len(s)) : SubSeq(t, i + 1, i + Len(s)) = s

\* ------------------------------------------------------------------ values
\* A JSON value the model replied with: d is its content, env tells whether it
\* is an envelope object carrying the content under `data`.
Contents == {"A", "B"}
Val(env, d) == [t |-> "val", env |-> env, d |-> d]
Text(d) == [t |-> "text", env |-> FALSE, d |-> d]
NoValue == [t |-> "none", env |-> FALSE, d |-> ""]
Undefined == [t |-> "undefined", env |-> FALSE, d |-> ""]

\* the payloads a caller passes, by kind ("function" stands for the unsupported ones)
PayloadKinds == {"object", "function"}

\* every kind of payload: {"a":1}, [1], "verbatim", false, 7, null, undefined, () => 1
AllPayloadKinds ==
    {"object", "array", "string", "boolean", "number", "null", "undefined", "function"}

\* typeof payload
TypeOf(p) ==
    CASE p \in {"object", "array", "null"} -> "object"
      [] OTHER -> p

\* the payload in a boolean context
Truthy(p) == p \notin {"boolean", "null", "undefined"}

\* JSON.stringify(payload, null, 2): <<text>>, or <<>> for undefined
Stringify(p) ==
    CASE p = "object" -> <<"{json}">>
      [] p = "array" -> <<"[json]">>
      [] p = "string" -> <<"\"verbatim\"">>
      [] p = "boolean" -> <<"false">>
      [] p = "number" -> <<"7">>
      [] p = "null" -> <<"null">>
      [] OTHER -> <<>>

\* isJSON lines 1268-1280: the serialization is an object or an array
isJSON(p) == Stringify(p) \in {<<"{json}">>, <<"[json]">>}

\* payload.toString() of a boolean or a number
toString(p) == Stringify(p)[1]

\* lines 648-662: the serialized payload, or <<>> when the payload is invalid
PreparePayloadMutant(p) ==
    IF Truthy(p) /\ isJSON(p) THEN <<Text(Stringify(p)[1])>>
    ELSE IF TypeOf(p) = "function" THEN <<>>
    ELSE <<NoValue>>
PreparePayload(p) ==
    IF Truthy(p) /\ isJSON(p) THEN <<Text(Stringify(p)[1])>>
    ELSE IF TypeOf(p) = "string" THEN <<Text("verbatim")>>
    ELSE IF TypeOf(p) \in {"boolean", "number"} THEN <<Text(toString(p))>>
    ELSE IF p \in {"null", "undefined"} THEN <<Text("{}")>>
    ELSE <<>>

\* statelessMessage lines 1025-1027: a string verbatim, anything else through
\* JSON.stringify, which gives undefined for a function or undefined
StatelessPayload(p) ==
    IF TypeOf(p) = "string" THEN Text("verbatim")
    ELSE IF Stringify(p) = <<>> THEN Undefined
    ELSE Text(Stringify(p)[1])

\* ----------------------------------------------------------- model replies
\* usageMetadata of a reply: absent, or token counts
Usages == Opt({[promptTokens |-> 2, responseTokens |-> 1, totalTokens |-> 3]})

\* A reply text is bare JSON, JSON inside a markdown fence, or prose.
Replies ==
    [kind : {"json"}, env : BOOLEAN, d : Contents, usage : Usages]
    \cup [kind : {"fenced", "prose"}, env : {FALSE}, d : {"A"}, usage : Usages]

\* extractJSON on the reply text: <<value>> or <<>> when it throws
extractJSON(reply) ==
    IF reply.kind \in {"json", "fenced"} THEN <<Val(reply.env, reply.d)>> ELSE <<>>

\* JSON.parse on the reply text
JSONparse(reply) ==
    IF reply.kind = "json" THEN <<Val(reply.env, reply.d)>> ELSE <<>>

\* rawMessage lines 568-572: unwrap `data` when it is truthy
UnwrapData(v) == IF v.env THEN Val(FALSE, v.d) ELSE v

\* the metadata record rawMessage and rebuildPayload store (token fields)
MetadataOf(reply) ==
    IF reply.usage = <<>>
    THEN [promptTokens |-> 0, responseTokens |-> 0, totalTokens |-> 0]
    ELSE reply.usage[1]

ZeroUsage == [promptTokens |-> 0, responseTokens |-> 0, totalTokens |-> 0, attempts |-> 0]

\* lines 686-691
Accumulate(cum, meta, attempt) ==
    IF meta = <<>> THEN cum
    ELSE [promptTokens |-> cum.promptTokens + meta[1].promptTokens,
          responseTokens |-> cum.responseTokens + meta[1].responseTokens,
          totalTokens |-> cum.totalTokens + meta[1].totalTokens,
          attempts |-> attempt + 1]

\* getLastUsage(): <<>> for null, else the reported totals
getLastUsage(meta, cum) ==
    IF meta = <<>> THEN <<>>
    ELSE IF cum.attempts > 0
         THEN <<[promptTokens |-> cum.promptTokens, responseTokens |-> cum.responseTokens,
                 totalTokens |-> cum.totalTokens, attempts |-> cum.attempts]>>
         ELSE <<[promptTokens |-> meta[1].promptTokens, responseTokens |-> meta[1].responseTokens,
                 totalTokens |-> meta[1].totalTokens, attempts |-> 1]>>

\* --------------------------------------------------------- loop predicates
\* line 681: attempt 0 sends the payload, later attempts rebuild
IsFirstAttemptMutant(attempt) == attempt >= 0
IsFirstAttempt(attempt) == attempt = 0

\* line 678: the loop condition
LoopCondition(attempt, maxRetries) == attempt <= maxRetries

\* line 714
RetriesExhaustedMutant(attempt, maxRetries) == attempt > maxRetries
RetriesExhausted(attempt, maxRetries) == attempt >= maxRetries

Pow2(n) == IF n = 0 THEN 1 ELSE 2 ^ n

\* line 726
BackoffDelayMutant(retryDelay, attempt) == retryDelay * (attempt + 1)
BackoffDelay(retryDelay, attempt) == retryDelay * Pow2(attempt)

\* line 693: lastPayload is updated before validation
LastPayloadBeforeValidationMutant(lastPayload, transformedPayload) == lastPayload
LastPayloadBeforeValidation(lastPayload, transformedPayload) == transformedPayload


\* ------------------------------------------------------------------- state
VARIABLES
    inst,                  \* this.maxRetries, this.retryDelay, this.asyncValidator, this.onlyJSON
    chat,                  \* this.chat: <<>> (null) or <<session>>
    enableGrounding,       \* this.enableGrounding
    groundingConfig,       \* this.groundingConfig
    lastResponseMetadata,  \* this.lastResponseMetadata: <<>> (null) or <<metadata>>
    cumulativeUsage,       \* this._cumulativeUsage
    call,                  \* the locals of each message() call and where it is suspended
    obs,                   \* what each call's collaborators and timer have seen
    created,               \* the instance fields as the constructor left them
    passed,                \* the options each call was started with
    given,                 \* the options the constructor was called with
    session,               \* this.chat as an object with a history, and this.exampleCount
    service,               \* the HTTP function: its transformers Map and its requests
    text,                  \* the argument of an extractJSON(text) call
    result                 \* what that call returned or threw

vars == <<inst, chat, enableGrounding, groundingConfig, lastResponseMetadata,
          cumulativeUsage, call, obs, created, passed, given, session, service,
          text, result>>

\* what the retry engine never writes
aux == <<created, passed, given, session, service, text, result>>

Pending == [s |-> "pending", v |-> NoValue, e |-> NoError]
Resolved(v) == [s |-> "resolved", v |-> v, e |-> NoError]
Rejected(e) == [s |-> "rejected", v |-> NoValue, e |-> e]

IdleCall ==
    [pc |-> "idle", maxRetries |-> 0, retryDelay |-> 0, validatorFn |-> "none",
     original |-> <<>>, restore |-> <<>>, initTools |-> FALSE, payload |-> "object",
     attempt |-> 0, via |-> "none", request |-> <<>>, lastPayload |-> NoValue, lastError |-> NoError,
     transformedPayload |-> NoValue, outcome |-> Pending]

\* the options object of a call: every option is optional
NoOptions ==
    [maxRetries |-> <<>>, retryDelay |-> <<>>, enableGrounding |-> <<>>,
     groundingConfig |-> <<>>, stateless |-> FALSE]

IdleObs ==
    [sends |-> 0, rebuilds |-> 0, validatorCalls |-> 0, waited |-> 0, entered |-> FALSE,
     extractions |-> 0, lastExtracted |-> NoValue, failMsg |-> <<>>, failedAt |-> -1,
     accepted |-> FALSE, docValidator |-> FALSE, generates |-> 0,
     reported |-> [promptTokens |-> 0, responseTokens |-> 0, totalTokens |-> 0]]

\* a value that is not a string, by its type, or a string as its characters
NotAString(type) == [type |-> type, chars |-> <<>>]
String(chars) == [type |-> "string", chars |-> chars]

\* extractJSON has not been called
NotExtracted == [s |-> "none", v |-> <<>>, msg |-> <<>>]

\* no chat object has been created and no example counted (constructor line 116)
NoSession == [chat |-> <<>>, creates |-> 0, exampleCount |-> 0, last |-> "none"]

\* function.js line 11: the transformers Map is empty, no request has arrived
NoService == [CODE_PHRASE |-> <<>>, transformers |-> {}, constructed |-> <<>>, requests |-> <<>>]

\* new AITransformer(options): the constructor (lines 100-123) and
\* AITransformFactory (lines 299-311); chat is null
AITransformFactory(options) ==
    /\ inst = [maxRetries |-> OrDefault(options.maxRetries, DEFAULT_MAX_RETRIES),
               retryDelay |-> OrDefault(options.retryDelay, DEFAULT_RETRY_DELAY),
               asyncValidator |-> options.asyncValidator,
               onlyJSON |-> NullishCoalesce(options.onlyJSON, TRUE)]
    /\ given = options
    /\ session = NoSession
    /\ chat = <<>>
    /\ enableGrounding = FALSE
    /\ groundingConfig = "{}"
    /\ lastResponseMetadata = <<>>
    /\ cumulativeUsage = ZeroUsage
    /\ call = [c \in Calls |-> IdleCall]
    /\ obs = [c \in Calls |-> IdleObs]
    /\ created = inst
    /\ passed = [c \in Calls |-> NoOptions]

\* the instances of the retry specifications: onlyJSON is left at its default
InitInstance ==
    \E mr \in Opt(0..MaxRetriesBound), rd \in Opt(RetryDelays), av \in BOOLEAN :
        AITransformFactory([maxRetries |-> mr, retryDelay |-> rd, asyncValidator |-> av,
                            onlyJSON |-> <<>>])

Init ==
    /\ InitInstance
    /\ service = NoService
    /\ text = NotAString("undefined")
    /\ result = NotExtracted

\* initChat lines 368-404: the session is created before models.list() is awaited
NewChat(tools) == <<[tools |-> tools]>>

\* the arguments of the rawMessage(lastPayload) or rebuild(lastPayload, serverError)
\* call that is in flight
RequestOf(lastPayload, serverError) ==
    <<[lastPayload |-> lastPayload, serverError |-> serverError]>>

\* ------------------------------------------------- the two ends of an attempt
\* lines 700-708: the attempt succeeded
SucceedStep(r, eg, gc) ==
    IF r.restore # <<>>
    THEN [r |-> [r EXCEPT !.pc = "restoreOnSuccess", !.initTools = r.restore[1].enableGrounding],
          eg |-> r.restore[1].enableGrounding, gc |-> r.restore[1].groundingConfig]
    ELSE [r |-> [r EXCEPT !.pc = "resolved", !.outcome = Resolved(r.transformedPayload)],
          eg |-> eg, gc |-> gc]

\* lines 710-728: the catch block
CatchStep(r0, error, eg, gc) ==
    LET r == [r0 EXCEPT !.lastError = error, !.request = <<>>] IN
    IF MessageThrows(error)
    THEN [r |-> [r EXCEPT !.pc = "rejected", !.outcome = Rejected(TypeErrorNullMessage)],
          eg |-> eg, gc |-> gc]
    ELSE IF RetriesExhausted(r.attempt, r.maxRetries)
    THEN IF r.restore # <<>>
         THEN [r |-> [r EXCEPT !.pc = "restoreOnFailure",
                               !.initTools = r.restore[1].enableGrounding],
               eg |-> r.restore[1].enableGrounding, gc |-> r.restore[1].groundingConfig]
         ELSE [r |-> [r EXCEPT !.pc = "rejected",
                               !.outcome = Rejected(AggregateError(r.maxRetries, error))],
               eg |-> eg, gc |-> gc]
    ELSE [r |-> [r EXCEPT !.pc = "backoff"], eg |-> eg, gc |-> gc]

\* what the catch block leaves in the observer record
ObsCaught(o, attempt, error) ==
    [o EXCEPT !.failMsg = <<MessageOf(error)>>, !.failedAt = attempt]

\* lines 645-682: payload preparation, usage reset and the request of attempt 0
EnterLoop(c, r, o) ==
    LET prepared == PreparePayload(r.payload) IN
    IF prepared = <<>>
    THEN /\ call' = [call EXCEPT ![c] = [r EXCEPT !.pc = "rejected",
                                                  !.outcome = Rejected(InvalidPayloadError)]]
         /\ obs' = [obs EXCEPT ![c] = o]
         /\ UNCHANGED cumulativeUsage
    ELSE /\ call' = [call EXCEPT ![c] = [r EXCEPT !.pc = "model", !.attempt = 0,
                                                  !.via = "rawMessage",
                                                  !.request = RequestOf(prepared[1], <<>>),
                                                  !.lastPayload = prepared[1]]]
         /\ obs' = [obs EXCEPT ![c] = [o EXCEPT !.sends = @ + 1, !.entered = TRUE]]
         /\ cumulativeUsage' = ZeroUsage

\* lines 601-602: maxRetries and retryDelay of the options are read into
\* locals of the call; the fields of the instance are not written
InstanceAfterOptionsMutant(i, o) ==
    [i EXCEPT !.maxRetries = NullishCoalesce(o.maxRetries, @),
              !.retryDelay = NullishCoalesce(o.retryDelay, @)]
InstanceAfterOptions(i, o) == i

\* ----------------------------------------------------------------- actions
\* the public init() on an instance without a session
InitChat ==
    /\ chat = <<>>
    /\ chat' = NewChat(enableGrounding)
    /\ UNCHANGED <<inst, enableGrounding, groundingConfig, lastResponseMetadata,
                   cumulativeUsage, call, obs>>

\* message(payload, opts, validatorFn), messageAndValidate(payload, opts, validatorFn)
\* and transformWithValidation(payload, validatorFn) as the README documents it,
\* up to the first await (lines 591-643)
prepareAndValidateMessageWith(c, entry, payload, options, withValidator) ==
    LET \* documented form: the validator lands in the options parameter
        o == IF entry = "documented" THEN NoOptions ELSE options
        validatorFn ==
            CASE entry = "message" ->
                    IF withValidator THEN "call"
                    ELSE IF inst.asyncValidator THEN "instance" ELSE "none"
              [] entry = "messageAndValidate" ->
                    IF withValidator THEN "call" ELSE "none"
              [] OTHER -> "none"
        egm == NullishCoalesce(o.enableGrounding, enableGrounding)
        gcm == NullishCoalesce(o.groundingConfig, groundingConfig)
        r == [IdleCall EXCEPT !.maxRetries = NullishCoalesce(o.maxRetries, inst.maxRetries),
                              !.retryDelay = NullishCoalesce(o.retryDelay, inst.retryDelay),
                              !.validatorFn = validatorFn,
                              !.payload = payload]
        ob == [IdleObs EXCEPT !.docValidator = (entry = "documented")]
    IN  /\ call[c].pc = "idle"
        /\ IF chat = <<>>
           THEN /\ call' = [call EXCEPT ![c] = [r EXCEPT !.pc = "rejected",
                                                !.outcome = Rejected(NotInitializedError)]]
                /\ obs' = [obs EXCEPT ![c] = ob]
                /\ UNCHANGED <<enableGrounding, groundingConfig, cumulativeUsage>>
           ELSE IF o.stateless
           THEN \* statelessMessage lines 1020-1053, up to the awaited generateContent
                /\ call' = [call EXCEPT ![c] =
                              [IdleCall EXCEPT !.pc = "generate", !.payload = payload,
                                               !.validatorFn = validatorFn,
                                               !.request = RequestOf(StatelessPayload(payload),
                                                                     <<>>)]]
                /\ obs' = [obs EXCEPT ![c] = [ob EXCEPT !.generates = @ + 1]]
                /\ UNCHANGED <<enableGrounding, groundingConfig, cumulativeUsage>>
           ELSE IF egm # enableGrounding
           THEN /\ call' = [call EXCEPT ![c] =
                              [r EXCEPT !.pc = "groundingInit",
                                        !.initTools = egm,
                                        !.original = <<[enableGrounding |-> enableGrounding,
                                                        groundingConfig |-> groundingConfig]>>]]
                /\ obs' = [obs EXCEPT ![c] = ob]
                /\ enableGrounding' = egm
                /\ groundingConfig' = gcm
                /\ UNCHANGED cumulativeUsage
           ELSE /\ EnterLoop(c, r, ob)
                /\ UNCHANGED <<enableGrounding, groundingConfig>>
        /\ inst' = InstanceAfterOptions(inst, o)
        /\ UNCHANGED <<chat, lastResponseMetadata>>

\* the calls the single-call specification makes
prepareAndValidateMessage(c) ==
    /\ call[c].pc = "idle"
    /\ \E entry \in {"message", "messageAndValidate", "documented"},
       payload \in PayloadKinds,
       optMaxRetries \in Opt(0..MaxRetriesBound),
       optRetryDelay \in Opt(RetryDelays),
       optGrounding \in Opt(BOOLEAN),
       optGroundingConfig \in Opt({"search"}),
       optStateless \in BOOLEAN,
       withValidator \in BOOLEAN :
        /\ entry = "documented" => withValidator
        /\ optGrounding = <<>> => optGroundingConfig = <<>>
        \* a stateless call reads none of the other options
        /\ optStateless => /\ entry # "documented"
                           /\ optMaxRetries = <<>> /\ optRetryDelay = <<>>
                           /\ optGrounding = <<>>
        /\ prepareAndValidateMessageWith(c, entry, payload,
               [maxRetries |-> optMaxRetries, retryDelay |-> optRetryDelay,
                enableGrounding |-> optGrounding, groundingConfig |-> optGroundingConfig,
                stateless |-> optStateless], withValidator)

\* lines 619-643: init(true) for the per-message grounding settles
GroundingInitReturn(c) ==
    /\ call[c].pc = "groundingInit"
    /\ chat' = NewChat(call[c].initTools)
    /\ \E ok \in BOOLEAN :
         IF ok
         THEN /\ EnterLoop(c, [call[c] EXCEPT !.restore = call[c].original], obs[c])
              /\ UNCHANGED <<enableGrounding, groundingConfig>>
         ELSE /\ call' = [call EXCEPT ![c] = [@ EXCEPT !.pc = "rejected",
                                              !.outcome = Rejected(InitFailedError(ListError))]]
              /\ enableGrounding' = call[c].original[1].enableGrounding
              /\ groundingConfig' = call[c].original[1].groundingConfig
              /\ UNCHANGED <<obs, cumulativeUsage>>
    /\ UNCHANGED <<inst, lastResponseMetadata>>


\* rawMessage lines 574-580: every failure of the send is rethrown wrapped
RawMessageError(onlyJSON, e) ==
    IF onlyJSON /\ Contains(e.msg, <<"Could not extract valid JSON from model response. Response preview: ">>)
    THEN Err(<<"Invalid JSON response from Gemini: ">> \o e.msg)
    ELSE Err(<<"Transformation failed: ">> \o e.msg)

\* rebuildPayload lines 774-776 and 781-783
RebuildCallError(e) == Err(<<"Gemini call failed while repairing payload: ">> \o e.msg)
RebuildParseError(e) == Err(<<"Gemini returned non-JSON while repairing payload: ">> \o e.msg)

\* rawMessage lines 543-580 / rebuildPayload lines 757-784, from the reply on:
\* <<value>> when the call returns, else the error it throws
RawMessageResult(onlyJSON, reply) ==
    LET x == extractJSON(reply) IN
    IF x = <<>> THEN [v |-> <<>>, e |-> RawMessageError(onlyJSON, ExtractionError)]
    ELSE [v |-> <<UnwrapData(x[1])>>, e |-> NoError]

RebuildResult(reply) ==
    LET x == JSONparse(reply) IN
    IF x = <<>> THEN [v |-> <<>>, e |-> RebuildParseError(JSONParseError)]
    ELSE [v |-> x, e |-> NoError]

AddTokens(sum, meta) ==
    [promptTokens |-> sum.promptTokens + meta.promptTokens,
     responseTokens |-> sum.responseTokens + meta.responseTokens,
     totalTokens |-> sum.totalTokens + meta.totalTokens]

\* The awaited rawMessage() or rebuild() of the current attempt settles
\* (lines 681-698 when it returns, the catch block when it throws).
ModelReturn(c) ==
    /\ call[c].pc = "model"
    /\ \/ \* chat.sendMessage rejects
          LET e == IF call[c].via = "rawMessage"
                   THEN RawMessageError(inst.onlyJSON, TransportError)
                   ELSE RebuildCallError(TransportError)
              n == CatchStep(call[c], e, enableGrounding, groundingConfig)
          IN  /\ call' = [call EXCEPT ![c] = n.r]
              /\ enableGrounding' = n.eg
              /\ groundingConfig' = n.gc
              /\ obs' = [obs EXCEPT ![c] = ObsCaught(@, call[c].attempt, e)]
              /\ UNCHANGED <<lastResponseMetadata, cumulativeUsage>>
       \/ \* chat.sendMessage returns a reply
          \E reply \in Replies :
            LET res == IF call[c].via = "rawMessage"
                       THEN RawMessageResult(inst.onlyJSON, reply)
                       ELSE RebuildResult(reply)
                meta == <<MetadataOf(reply)>>
                o1 == [obs[c] EXCEPT !.reported = AddTokens(@, MetadataOf(reply))]
            IN  /\ lastResponseMetadata' = meta
                /\ IF res.v = <<>>
                   THEN LET n == CatchStep(call[c], res.e, enableGrounding, groundingConfig)
                        IN  /\ call' = [call EXCEPT ![c] = n.r]
                            /\ enableGrounding' = n.eg
                            /\ groundingConfig' = n.gc
                            /\ obs' = [obs EXCEPT ![c] = ObsCaught(o1, call[c].attempt, res.e)]
                            /\ UNCHANGED cumulativeUsage
                   ELSE LET transformedPayload == res.v[1]
                            r == [call[c] EXCEPT
                                    !.request = <<>>,
                                    !.transformedPayload = transformedPayload,
                                    !.lastPayload = LastPayloadBeforeValidation(@, transformedPayload)]
                            o2 == [o1 EXCEPT !.extractions = @ + 1,
                                             !.lastExtracted = transformedPayload]
                        IN  /\ cumulativeUsage' = Accumulate(cumulativeUsage, meta, call[c].attempt)
                            /\ IF r.validatorFn # "none"
                               THEN /\ call' = [call EXCEPT ![c] = [r EXCEPT !.pc = "validator"]]
                                    /\ obs' = [obs EXCEPT ![c] =
                                                 [o2 EXCEPT !.validatorCalls = @ + 1]]
                                    /\ UNCHANGED <<enableGrounding, groundingConfig>>
                               ELSE LET n == SucceedStep(r, enableGrounding, groundingConfig)
                                    IN  /\ call' = [call EXCEPT ![c] = n.r]
                                        /\ enableGrounding' = n.eg
                                        /\ groundingConfig' = n.gc
                                        /\ obs' = [obs EXCEPT ![c] = [o2 EXCEPT !.accepted = TRUE]]
    /\ UNCHANGED <<inst, chat>>

\* the awaited validatorFn(transformedPayload) settles (lines 696-708 / 710-728)
ValidatorReturn(c) ==
    /\ call[c].pc = "validator"
    /\ \/ \E resolved \in ValidatorResolves :
          LET n == SucceedStep(call[c], enableGrounding, groundingConfig)
          IN  /\ ValidatorAccepts(resolved)
              /\ call' = [call EXCEPT ![c] = n.r]
              /\ enableGrounding' = n.eg
              /\ groundingConfig' = n.gc
              /\ obs' = [obs EXCEPT ![c] = [@ EXCEPT !.accepted = TRUE]]
       \/ \E e \in ValidatorThrows :
            LET n == CatchStep(call[c], e, enableGrounding, groundingConfig)
            IN  /\ call' = [call EXCEPT ![c] = n.r]
                /\ enableGrounding' = n.eg
                /\ groundingConfig' = n.gc
                /\ obs' = [obs EXCEPT ![c] = ObsCaught(@, call[c].attempt, e)]
    /\ UNCHANGED <<inst, chat, lastResponseMetadata, cumulativeUsage>>

\* lines 645-646 and 678: lastError, lastPayload and attempt are variables of
\* the invocation
LocalsMutant(c) ==
    LET other == CHOOSE d \in Calls : d # c IN
    [call[c] EXCEPT !.lastError = call[other].lastError,
                    !.lastPayload = call[other].lastPayload]
Locals(c) == call[c]

\* the backoff timer fires (line 727); the loop increments attempt, tests its
\* condition and requests the next attempt (lines 678-683)
BackoffReturn(c) ==
    /\ call[c].pc = "backoff"
    /\ LET r == Locals(c)
           delay == BackoffDelay(r.retryDelay, r.attempt)
           next == r.attempt + 1
           o == [obs[c] EXCEPT !.waited = @ + delay]
       IN  IF ~LoopCondition(next, r.maxRetries)
           THEN /\ call' = [call EXCEPT ![c] = [r EXCEPT !.attempt = next, !.pc = "resolved",
                                                         !.outcome = Resolved(Undefined)]]
                /\ obs' = [obs EXCEPT ![c] = o]
           ELSE IF IsFirstAttempt(next)
           THEN /\ call' = [call EXCEPT ![c] =
                               [r EXCEPT !.attempt = next, !.pc = "model", !.via = "rawMessage",
                                         !.request = RequestOf(r.lastPayload, <<>>)]]
                /\ obs' = [obs EXCEPT ![c] = [o EXCEPT !.sends = @ + 1]]
           ELSE /\ call' = [call EXCEPT ![c] =
                               [r EXCEPT !.attempt = next, !.pc = "model", !.via = "rebuild",
                                         !.request = RequestOf(r.lastPayload,
                                                               MessageOf(r.lastError))]]
                /\ obs' = [obs EXCEPT ![c] = [o EXCEPT !.rebuilds = @ + 1]]
    /\ UNCHANGED <<inst, chat, enableGrounding, groundingConfig, lastResponseMetadata,
                   cumulativeUsage>>

\* the init(true) of restoreGrounding settles on the success path (lines 704-708)
RestoreOnSuccessReturn(c) ==
    /\ call[c].pc = "restoreOnSuccess"
    /\ chat' = NewChat(call[c].initTools)
    /\ \/ /\ call' = [call EXCEPT ![c] = [@ EXCEPT !.pc = "resolved",
                                          !.outcome = Resolved(call[c].transformedPayload)]]
          /\ UNCHANGED <<enableGrounding, groundingConfig, obs>>
       \/ \* models.list() fails: the throw lands in the loop's own catch block
          LET e == InitFailedError(ListError)
              n == CatchStep(call[c], e, enableGrounding, groundingConfig)
          IN  /\ call' = [call EXCEPT ![c] = n.r]
              /\ enableGrounding' = n.eg
              /\ groundingConfig' = n.gc
              /\ obs' = [obs EXCEPT ![c] = ObsCaught(@, call[c].attempt, e)]
    /\ UNCHANGED <<inst, lastResponseMetadata, cumulativeUsage>>

\* the init(true) of restoreGrounding settles after the last failure (lines 718-722)
RestoreOnFailureReturn(c) ==
    /\ call[c].pc = "restoreOnFailure"
    /\ chat' = NewChat(call[c].initTools)
    /\ \/ call' = [call EXCEPT ![c] =
                     [@ EXCEPT !.pc = "rejected",
                               !.outcome = Rejected(AggregateError(call[c].maxRetries,
                                                                   call[c].lastError))]]
       \/ call' = [call EXCEPT ![c] = [@ EXCEPT !.pc = "rejected",
                                       !.outcome = Rejected(InitFailedError(ListError))]]
    /\ UNCHANGED <<inst, enableGrounding, groundingConfig, lastResponseMetadata,
                   cumulativeUsage, obs>>

\* statelessMessage lines 1046-1091: the awaited generateContent settles; nothing
\* here is caught, so whatever throws rejects the call as it is
GenerateReturn(c) ==
    /\ call[c].pc = "generate"
    /\ \/ /\ call' = [call EXCEPT ![c] = [@ EXCEPT !.pc = "rejected", !.request = <<>>,
                                          !.outcome = Rejected(TransportError)]]
          /\ UNCHANGED <<lastResponseMetadata, cumulativeUsage, obs>>
       \/ \E reply \in Replies :
            LET x == extractJSON(reply)
                meta == MetadataOf(reply)
                o1 == [obs[c] EXCEPT !.reported = AddTokens(@, meta)]
            IN  /\ lastResponseMetadata' = <<meta>>
                /\ cumulativeUsage' = [promptTokens |-> meta.promptTokens,
                                       responseTokens |-> meta.responseTokens,
                                       totalTokens |-> meta.totalTokens, attempts |-> 1]
                /\ IF x = <<>>
                   THEN /\ call' = [call EXCEPT ![c] = [@ EXCEPT !.pc = "rejected",
                                                        !.request = <<>>,
                                                        !.outcome = Rejected(ExtractionError)]]
                        /\ obs' = [obs EXCEPT ![c] = o1]
                   ELSE LET transformedPayload == UnwrapData(x[1])
                            r == [call[c] EXCEPT !.request = <<>>,
                                                 !.transformedPayload = transformedPayload]
                            o2 == [o1 EXCEPT !.extractions = @ + 1,
                                             !.lastExtracted = transformedPayload]
                        IN  IF r.validatorFn # "none"
                            THEN /\ call' = [call EXCEPT ![c] =
                                               [r EXCEPT !.pc = "statelessValidator"]]
                                 /\ obs' = [obs EXCEPT ![c] =
                                              [o2 EXCEPT !.validatorCalls = @ + 1]]
                            ELSE /\ call' = [call EXCEPT ![c] =
                                               [r EXCEPT !.pc = "resolved",
                                                         !.outcome = Resolved(transformedPayload)]]
                                 /\ obs' = [obs EXCEPT ![c] = [o2 EXCEPT !.accepted = TRUE]]
    /\ UNCHANGED <<inst, chat, enableGrounding, groundingConfig>>

\* statelessMessage lines 1086-1091: the awaited validator settles
StatelessValidatorReturnMutant(c) ==
    /\ call[c].pc = "statelessValidator"
    /\ \/ /\ call' = [call EXCEPT ![c] =
                         [@ EXCEPT !.pc = "resolved",
                                   !.outcome = Resolved(call[c].transformedPayload)]]
          /\ obs' = [obs EXCEPT ![c] = [@ EXCEPT !.accepted = TRUE]]
       \/ /\ \E e \in ValidatorThrows \ {ThrownNull} :
               call' = [call EXCEPT ![c] =
                          [@ EXCEPT !.pc = "rejected",
                                    !.outcome = Rejected(AggregateError(inst.maxRetries, e))]]
          /\ UNCHANGED obs
    /\ UNCHANGED <<inst, chat, enableGrounding, groundingConfig, lastResponseMetadata,
                   cumulativeUsage>>
StatelessValidatorReturn(c) ==
    /\ call[c].pc = "statelessValidator"
    /\ \/ /\ \E resolved \in ValidatorResolves : ValidatorAccepts(resolved)
          /\ call' = [call EXCEPT ![c] =
                         [@ EXCEPT !.pc = "resolved",
                                   !.outcome = Resolved(call[c].transformedPayload)]]
          /\ obs' = [obs EXCEPT ![c] = [@ EXCEPT !.accepted = TRUE]]
       \/ /\ \E e \in ValidatorThrows :
               call' = [call EXCEPT ![c] = [@ EXCEPT !.pc = "rejected",
                                                     !.outcome = Rejected(e)]]
          /\ UNCHANGED obs
    /\ UNCHANGED <<inst, chat, enableGrounding, groundingConfig, lastResponseMetadata,
                   cumulativeUsage>>

\* one call at a time on one instance
Next ==
    \/ InitChat /\ UNCHANGED aux
    \/ \E c \in SeqCalls : prepareAndValidateMessage(c) /\ UNCHANGED aux
    \/ \E c \in SeqCalls : GroundingInitReturn(c) /\ UNCHANGED aux
    \/ \E c \in SeqCalls : ModelReturn(c) /\ UNCHANGED aux
    \/ \E c \in SeqCalls : ValidatorReturn(c) /\ UNCHANGED aux
    \/ \E c \in SeqCalls : BackoffReturn(c) /\ UNCHANGED aux
    \/ \E c \in SeqCalls : RestoreOnSuccessReturn(c) /\ UNCHANGED aux
    \/ \E c \in SeqCalls : RestoreOnFailureReturn(c) /\ UNCHANGED aux
    \/ \E c \in SeqCalls : GenerateReturn(c) /\ UNCHANGED aux
    \/ \E c \in SeqCalls : StatelessValidatorReturn(c) /\ UNCHANGED aux

Spec == Init /\ [][Next]_vars


\* ----------------------------------------------------------------- claims
Settled(c) == call[c].pc \in {"resolved", "rejected"}

AttemptsMade(c) == obs[c].sends + obs[c].rebuilds

\* e is the aggregate error of a call with this maxRetries
IsAggregate(e, maxRetries) ==
    /\ e.k = "Error"
    /\ Len(e.msg) >= 3
    /\ SubSeq(e.msg, 1, 3) = <<"Transformation failed after ", NumStr(maxRetries + 1),
                               " attempts. Last error: ">>

\* C1: a call makes at most maxRetries+1 attempts: exactly one send, of the
\* original payload, as attempt 0, and at most maxRetries rebuilds, every
\* attempt after the first being a rebuild.
C1_AttemptBound ==
    \A c \in Calls :
        /\ AttemptsMade(c) <= call[c].maxRetries + 1
        /\ obs[c].rebuilds <= call[c].maxRetries
        /\ obs[c].sends = (IF obs[c].entered THEN 1 ELSE 0)
        /\ obs[c].generates <= 1
        /\ obs[c].generates = 1 => AttemptsMade(c) = 0
        /\ obs[c].entered => AttemptsMade(c) = call[c].attempt + 1
        /\ call[c].pc = "model" =>
             IF call[c].attempt = 0
             THEN /\ call[c].via = "rawMessage"
                  /\ call[c].request = RequestOf(PreparePayload(call[c].payload)[1], <<>>)
             ELSE call[c].via = "rebuild"

\* a call used its whole budget: maxRetries rebuilds after the one send
C1_Witness ==
    \E c \in Calls :
        /\ call[c].pc = "rejected"
        /\ call[c].maxRetries = MaxRetriesBound
        /\ obs[c].sends = 1
        /\ obs[c].rebuilds = MaxRetriesBound

\* C2: a call that entered the attempt loop settles either by resolving with
\* the value its last attempt extracted or by rejecting with the aggregate error.
C2_ValueOrAggregate ==
    \A c \in Calls :
        (obs[c].entered /\ Settled(c)) =>
            \/ /\ call[c].outcome.s = "resolved"
               /\ obs[c].extractions > 0
               /\ call[c].outcome.v = obs[c].lastExtracted
            \/ /\ call[c].outcome.s = "rejected"
               /\ IsAggregate(call[c].outcome.e, call[c].maxRetries)

\* C3: when the attempt with index maxRetries fails, the call rejects with the
\* aggregate error, which states maxRetries+1 attempts and contains the message
\* of the last underlying error.
C3_FinalFailureAggregate ==
    \A c \in Calls :
        (Settled(c) /\ obs[c].failedAt = call[c].maxRetries) =>
            /\ call[c].outcome.s = "rejected"
            /\ IsAggregate(call[c].outcome.e, call[c].maxRetries)
            /\ Contains(call[c].outcome.e.msg, obs[c].failMsg[1])

\* C4: once an attempt has extracted a value that the validator (if any) did
\* not reject, the call resolves with that value and nothing else happens in it:
\* it is resolved, or about to be once the grounding restore has settled.
C4_ResolvesOnAcceptance ==
    \A c \in Calls :
        obs[c].accepted =>
            /\ call[c].pc \in {"restoreOnSuccess", "resolved"}
            /\ call[c].pc = "resolved" => call[c].outcome = Resolved(obs[c].lastExtracted)

\* C5: a rebuild is called with the value most recently extracted in this call,
\* which was recorded before the validator ran, and with the message of the
\* error that failed the previous attempt.
C5_RebuildFeedback ==
    \A c \in Calls :
        /\ call[c].pc = "validator" => call[c].lastPayload = obs[c].lastExtracted
        /\ (call[c].pc = "model" /\ call[c].via = "rebuild") =>
             /\ obs[c].failedAt = call[c].attempt - 1
             /\ call[c].request[1].serverError = obs[c].failMsg[1]
             /\ obs[c].extractions > 0 =>
                  call[c].request[1].lastPayload = obs[c].lastExtracted

\* a rebuild is in flight for a value that the validator rejected
C5_Witness ==
    \E c \in Calls :
        /\ call[c].pc = "model"
        /\ call[c].via = "rebuild"
        /\ call[c].lastError = Err(<<"Validation failed">>)
        /\ call[c].request[1].lastPayload = Val(FALSE, "B")

\* C6: the backoff before attempt k is the sum of retryDelay * 2^n over the
\* failed attempts n < k, that is retryDelay * (2^k - 1); nothing is waited
\* before attempt 0 or after the final failure.
C6_ExponentialBackoff ==
    \A c \in Calls :
        obs[c].waited = call[c].retryDelay * (Pow2(call[c].attempt) - 1)

\* attempt 2 is in flight with retryDelay 100 after 100 + 200 ms of backoff
C6_Witness ==
    \E c \in Calls :
        /\ call[c].pc = "model"
        /\ call[c].attempt = 2
        /\ call[c].retryDelay = 100
        /\ obs[c].waited = 300

\* C7: every failure raised inside an attempt is turned into the next attempt
\* or into the aggregate error: a call that entered the attempt loop is not
\* settled while attempts remain unless an attempt succeeded, and the only
\* error it rejects with is the aggregate error.
C7_FailuresCaught ==
    \A c \in Calls :
        (obs[c].entered /\ call[c].pc = "rejected") =>
            /\ IsAggregate(call[c].outcome.e, call[c].maxRetries)
            /\ call[c].attempt = call[c].maxRetries

\* C8: transformWithValidation(sourcePayload, validatorFn), called as
\* documented, invokes validatorFn on every value it extracts.
C8_DocumentedValidatorInvoked ==
    \A c \in Calls :
        obs[c].docValidator => obs[c].validatorCalls = obs[c].extractions

\* C9: when a call settles after a model reply, getLastUsage() reports as
\* attempts the number of attempts made and as tokens the sum of the usage
\* reported over all its attempts.
C9_UsageCountsEveryAttempt ==
    \A c \in Calls :
        LET u == getLastUsage(lastResponseMetadata, cumulativeUsage) IN
        (obs[c].entered /\ Settled(c) /\ u # <<>>) =>
            /\ u[1].attempts = AttemptsMade(c)
            /\ u[1].promptTokens = obs[c].reported.promptTokens
            /\ u[1].responseTokens = obs[c].reported.responseTokens
            /\ u[1].totalTokens = obs[c].reported.totalTokens

\* C10: when every model call of a call returned a parseable reply and the
\* validator accepted the k-th extracted value, the call resolves and
\* getLastUsage().attempts is k; the call does not settle otherwise before the
\* validator has seen maxRetries+1 values.
C10_AttemptsEqualK ==
    \A c \in Calls :
        (Settled(c) /\ call[c].validatorFn # "none"
            /\ obs[c].extractions = AttemptsMade(c) /\ obs[c].extractions > 0) =>
            IF obs[c].accepted
            THEN /\ call[c].outcome.s = "resolved"
                 /\ getLastUsage(lastResponseMetadata, cumulativeUsage)[1].attempts
                      = obs[c].validatorCalls
            ELSE obs[c].validatorCalls = call[c].maxRetries + 1

\* C15: a value extracted as an envelope with a data field reaches the
\* validator, lastValue and the caller as the content of data: in no attempt, the
\* first or a rebuild, is the value handed on still the envelope.
C15_EnvelopeUnwrapped ==
    \A c \in Calls :
        obs[c].extractions > 0 =>
            /\ ~obs[c].lastExtracted.env
            /\ ~call[c].transformedPayload.env
            /\ ~call[c].lastPayload.env
            /\ ~call[c].outcome.v.env

\* C16: a validator that returns without throwing, whatever it resolves with,
\* accepts the value: the call resolves with the value the attempt extracted
\* and makes no further attempt (it is resolved, or about to be once the
\* grounding restore has settled).
C16_AcceptanceByNotThrowing ==
    \A c \in Calls :
        (call[c].validatorFn # "none" /\ obs[c].accepted) =>
            /\ call[c].pc \in {"restoreOnSuccess", "resolved"}
            /\ obs[c].failedAt < call[c].attempt
            /\ call[c].pc = "resolved" => call[c].outcome = Resolved(obs[c].lastExtracted)

\* ------------------------------------------------- calls one after another
\* the slots of the specification in which a call starts once the one before
\* it has settled
SequenceCalls == {1, 2}

\* The first call passes its own maxRetries and retryDelay, or only stateless;
\* the later call passes no option, or only stateless.
SequenceOptions(c) ==
    {[NoOptions EXCEPT !.stateless = TRUE]} \cup
    IF c = 1
    THEN {[NoOptions EXCEPT !.maxRetries = <<0>>, !.retryDelay = rd] : rd \in Opt(RetryDelays)}
    ELSE {NoOptions}

SequencePayloads(c) == IF c = 1 THEN AllPayloadKinds ELSE {"object"}

\* new AITransformer({maxRetries: 1})
SequenceInit ==
    /\ Init
    /\ inst.maxRetries = 1
    /\ inst.retryDelay = DEFAULT_RETRY_DELAY
    /\ ~inst.asyncValidator

\* message(payload, options, validatorFn) once the earlier calls have settled
MessageInSequence(c) ==
    /\ call[c].pc = "idle"
    /\ \A d \in SequenceCalls : d < c => Settled(d)
    /\ \E payload \in SequencePayloads(c), options \in SequenceOptions(c),
          withValidator \in BOOLEAN :
         /\ prepareAndValidateMessageWith(c, "message", payload, options, withValidator)
         /\ passed' = [passed EXCEPT ![c] = options]
    /\ UNCHANGED <<created, given, session, service, text, result>>

SequenceNext ==
    \/ InitChat /\ UNCHANGED aux
    \/ \E c \in SequenceCalls : MessageInSequence(c)
    \/ \E c \in SequenceCalls : ModelReturn(c) /\ UNCHANGED aux
    \/ \E c \in SequenceCalls : ValidatorReturn(c) /\ UNCHANGED aux
    \/ \E c \in SequenceCalls : BackoffReturn(c) /\ UNCHANGED aux
    \/ \E c \in SequenceCalls : GenerateReturn(c) /\ UNCHANGED aux
    \/ \E c \in SequenceCalls : StatelessValidatorReturn(c) /\ UNCHANGED aux

SpecSequence == SequenceInit /\ [][SequenceNext]_vars

\* no call was started after call c
LatestCall(c) == \A d \in Calls : d > c => call[d].pc = "idle"

\* C11: the usage snapshot is zero when a call's first attempt starts, and
\* getLastUsage() read after a call of a sequence has settled reports nothing
\* that this call did not consume: no more attempts than it made and no more
\* tokens than its replies reported, also when all its attempts failed.
C11_UsageOfThisCallOnly ==
    \A c \in SequenceCalls :
        LET u == getLastUsage(lastResponseMetadata, cumulativeUsage) IN
        /\ (call[c].pc = "model" /\ call[c].attempt = 0) => cumulativeUsage = ZeroUsage
        /\ (obs[c].entered /\ Settled(c) /\ LatestCall(c) /\ u # <<>>) =>
             /\ u[1].attempts <= AttemptsMade(c)
             /\ u[1].promptTokens <= obs[c].reported.promptTokens
             /\ u[1].responseTokens <= obs[c].reported.responseTokens
             /\ u[1].totalTokens <= obs[c].reported.totalTokens

\* C13: on an initialized instance an object or array payload is sent as its
\* serialized text, a string verbatim, a boolean or number as its string form,
\* null and undefined as the text {}; a call with any other payload is rejected
\* with the invalid-payload error without a model call or a backoff.
C13_PayloadKinds ==
    \A c \in SequenceCalls :
        LET p == call[c].payload
            claimed ==
                CASE p \in {"object", "array"} -> Text(Stringify(p)[1])
                  [] p = "string" -> Text("verbatim")
                  [] p = "boolean" -> Text("false")
                  [] p = "number" -> Text("7")
                  [] OTHER -> Text("{}")
        IN  (call[c].pc # "idle" /\ call[c].outcome.e # NotInitializedError) =>
              IF p = "function"
              THEN /\ call[c].outcome = Rejected(InvalidPayloadError)
                   /\ AttemptsMade(c) = 0
                   /\ obs[c].generates = 0
                   /\ obs[c].waited = 0
              ELSE /\ call[c].outcome.e # InvalidPayloadError
                   /\ (call[c].pc = "generate" \/ (call[c].pc = "model" /\ call[c].attempt = 0))
                        => call[c].request[1].lastPayload = claimed

\* C14: the instance keeps the maxRetries and retryDelay the constructor gave
\* it, whatever options calls pass and however they settle; a call that runs the
\* attempt loop is governed by its own options where it passes them and by the
\* instance values where it does not, in its attempt budget and in its backoff.
C14_OptionsAreLocal ==
    /\ inst = created
    /\ \A c \in SequenceCalls :
         LET maxRetries == IF passed[c].maxRetries = <<>> THEN created.maxRetries
                           ELSE passed[c].maxRetries[1]
             retryDelay == IF passed[c].retryDelay = <<>> THEN created.retryDelay
                           ELSE passed[c].retryDelay[1]
         IN  obs[c].entered =>
               /\ call[c].maxRetries = maxRetries
               /\ call[c].retryDelay = retryDelay
               /\ AttemptsMade(c) <= maxRetries + 1
               /\ obs[c].waited = retryDelay * (Pow2(call[c].attempt) - 1)
               /\ (call[c].pc = "rejected" /\ call[c].lastError.k = "Error") =>
                     AttemptsMade(c) = maxRetries + 1

\* after a call with maxRetries 0 and retryDelay 100 was rejected, a call
\* without options is in its second attempt after the instance's 1000 ms
C14_Witness ==
    /\ passed[1].maxRetries = <<0>>
    /\ passed[1].retryDelay = <<100>>
    /\ obs[1].entered
    /\ call[1].pc = "rejected"
    /\ passed[2] = NoOptions
    /\ call[2].pc = "model"
    /\ call[2].attempt = 1
    /\ obs[2].waited = DEFAULT_RETRY_DELAY

\* ------------------------------------------------- every awaited call settles
\* message(payload, options, validatorFn) with any maxRetries and with or
\* without grounding for this message
MessageToSettle(c) ==
    /\ call[c].pc = "idle"
    /\ \E optMaxRetries \in Opt(0..MaxRetriesBound), optGrounding \in Opt({TRUE}),
          withValidator \in BOOLEAN :
         LET options == [NoOptions EXCEPT !.maxRetries = optMaxRetries,
                                          !.enableGrounding = optGrounding]
         IN  /\ prepareAndValidateMessageWith(c, "message", "object", options, withValidator)
             /\ passed' = [passed EXCEPT ![c] = options]
    /\ UNCHANGED <<created, given, session, service, text, result>>

LiveNext ==
    \/ InitChat /\ UNCHANGED aux
    \/ \E c \in SeqCalls : MessageToSettle(c)
    \/ \E c \in SeqCalls : GroundingInitReturn(c) /\ UNCHANGED aux
    \/ \E c \in SeqCalls : ModelReturn(c) /\ UNCHANGED aux
    \/ \E c \in SeqCalls : ValidatorReturn(c) /\ UNCHANGED aux
    \/ \E c \in SeqCalls : BackoffReturn(c) /\ UNCHANGED aux
    \/ \E c \in SeqCalls : RestoreOnSuccessReturn(c) /\ UNCHANGED aux
    \/ \E c \in SeqCalls : RestoreOnFailureReturn(c) /\ UNCHANGED aux

\* The promise a call awaits is settled by the SDK, by the validator or by the
\* timer, none of which waits for the call: each of them eventually settles.
SpecLive ==
    /\ SequenceInit
    /\ [][LiveNext]_vars
    /\ \A c \in SeqCalls :
         /\ WF_vars(GroundingInitReturn(c) /\ UNCHANGED aux)
         /\ WF_vars(ModelReturn(c) /\ UNCHANGED aux)
         /\ WF_vars(ValidatorReturn(c) /\ UNCHANGED aux)
         /\ WF_vars(BackoffReturn(c) /\ UNCHANGED aux)
         /\ WF_vars(RestoreOnSuccessReturn(c) /\ UNCHANGED aux)
         /\ WF_vars(RestoreOnFailureReturn(c) /\ UNCHANGED aux)

\* C34: when every send, rebuild, validator call and backoff timer eventually
\* completes, every message() call eventually settles, and it makes at most
\* maxRetries + 1 attempts and waits at most maxRetries times (the delays
\* retryDelay * 2^n for n < maxRetries) on the way.
C34_EveryCallSettles ==
    \A c \in SeqCalls :
        /\ [](call[c].pc # "idle" =>
                /\ AttemptsMade(c) <= call[c].maxRetries + 1
                /\ call[c].attempt <= call[c].maxRetries
                /\ obs[c].waited <= call[c].retryDelay * (Pow2(call[c].maxRetries) - 1))
        /\ (call[c].pc # "idle") ~> Settled(c)

\* a call was rejected after maxRetries + 1 = 3 attempts and two waits
C34_Witness ==
    \E c \in SeqCalls :
        /\ call[c].pc = "rejected"
        /\ call[c].maxRetries = 2
        /\ AttemptsMade(c) = 3
        /\ obs[c].waited = 3 * call[c].retryDelay

\* ------------------------------------------------ payloads of every kind
\* message(payload, options, validatorFn) with any payload and any maxRetries
MessageWithPayload(c) ==
    /\ call[c].pc = "idle"
    /\ \E payload \in AllPayloadKinds, optMaxRetries \in Opt(0..MaxRetriesBound),
          withValidator \in BOOLEAN :
         LET options == [NoOptions EXCEPT !.maxRetries = optMaxRetries]
         IN  /\ prepareAndValidateMessageWith(c, "message", payload, options, withValidator)
             /\ passed' = [passed EXCEPT ![c] = options]
    /\ UNCHANGED <<created, given, session, service, text, result>>

PayloadsNext ==
    \/ InitChat /\ UNCHANGED aux
    \/ \E c \in SeqCalls : MessageWithPayload(c)
    \/ \E c \in SeqCalls : ModelReturn(c) /\ UNCHANGED aux
    \/ \E c \in SeqCalls : ValidatorReturn(c) /\ UNCHANGED aux
    \/ \E c \in SeqCalls : BackoffReturn(c) /\ UNCHANGED aux

SpecPayloads == SequenceInit /\ [][PayloadsNext]_vars

ConcurrentCalls == {1, 2}

\* One call runs with the instance's maxRetries, the other passes maxRetries 0
\* or 1.
ConcurrentOptions(c) ==
    IF c = 1 THEN {NoOptions} ELSE {[NoOptions EXCEPT !.maxRetries = <<n>>] : n \in {0, 1}}

\* message(payload, options, validatorFn) at any time, whatever else is in flight
MessageConcurrently(c) ==
    /\ call[c].pc = "idle"
    /\ chat # <<>>
    /\ \E options \in ConcurrentOptions(c), withValidator \in BOOLEAN :
         /\ prepareAndValidateMessageWith(c, "message", "object", options, withValidator)
         /\ passed' = [passed EXCEPT ![c] = options]
    /\ UNCHANGED <<created, given, session, service, text, result>>

ConcurrentNext ==
    \/ InitChat /\ UNCHANGED aux
    \/ \E c \in ConcurrentCalls : MessageConcurrently(c)
    \/ \E c \in ConcurrentCalls : ModelReturn(c) /\ UNCHANGED aux
    \/ \E c \in ConcurrentCalls : ValidatorReturn(c) /\ UNCHANGED aux
    \/ \E c \in ConcurrentCalls : BackoffReturn(c) /\ UNCHANGED aux

SpecConcurrent == SequenceInit /\ [][ConcurrentNext]_vars

InFlight(c) == call[c].pc \notin {"idle", "resolved", "rejected"}

\* C12: when a call settles while another call of the instance is in flight,
\* getLastUsage() reports no more attempts than this call made and no more
\* tokens than its own replies reported, and exactly its own attempts and
\* tokens when every one of its model calls returned a value.
C12_NoLeakBetweenCalls ==
    [][\A c \in ConcurrentCalls :
         (/\ InFlight(c) /\ Settled(c)'
          /\ \E d \in ConcurrentCalls : d # c /\ InFlight(d)) =>
            LET u == getLastUsage(lastResponseMetadata', cumulativeUsage')
                made == obs'[c].sends + obs'[c].rebuilds
                own == obs'[c].reported
            IN  /\ u # <<>> =>
                     /\ u[1].attempts <= made
                     /\ u[1].promptTokens <= own.promptTokens
                     /\ u[1].responseTokens <= own.responseTokens
                     /\ u[1].totalTokens <= own.totalTokens
                /\ obs'[c].extractions = made =>
                     /\ u # <<>>
                     /\ u[1].attempts = made
                     /\ u[1].totalTokens = own.totalTokens]_vars

\* C33: under concurrent message() calls on one instance the attempt counter,
\* the last value and the last error of a call are its own. In every
\* interleaving a rebuild request of a call carries the message of the error
\* that failed the previous attempt of that call and the value that call
\* extracted last (its own serialized payload while it has extracted none),
\* every call counts its own attempts only, and a call is rejected with the
\* aggregate error only when it has made maxRetries + 1 attempts itself.
C33_LocalsArePrivate ==
    \A c \in ConcurrentCalls :
        /\ (call[c].pc = "model" /\ call[c].via = "rebuild") =>
             /\ obs[c].failedAt = call[c].attempt - 1
             /\ call[c].request[1].serverError = obs[c].failMsg[1]
             /\ call[c].request[1].lastPayload =
                  IF obs[c].extractions > 0 THEN obs[c].lastExtracted
                  ELSE PreparePayload(call[c].payload)[1]
        /\ call[c].pc \in {"model", "validator", "backoff"} =>
             /\ AttemptsMade(c) = call[c].attempt + 1
             /\ AttemptsMade(c) <= call[c].maxRetries + 1
        /\ call[c].pc # "idle" =>
             call[c].maxRetries = NullishCoalesce(passed[c].maxRetries, created.maxRetries)
        /\ (call[c].pc = "rejected" /\ IsAggregate(call[c].outcome.e, call[c].maxRetries)) =>
             AttemptsMade(c) = call[c].maxRetries + 1

\* both calls have a rebuild in flight, for different values and after
\* different errors
C33_Witness ==
    /\ \A c \in ConcurrentCalls : call[c].pc = "model" /\ call[c].via = "rebuild"
    /\ call[1].request[1].lastPayload # call[2].request[1].lastPayload
    /\ call[1].request[1].serverError # call[2].request[1].serverError

\* C37: with options.stateless, message() makes exactly one model call and
\* never rebuilds or waits for a backoff, whatever maxRetries is. A failed
\* extraction or a rejecting validator rejects the call at once with that
\* error itself and not with the aggregate error of the retry loop, and after
\* a success the usage snapshot reports attempts = 1.
C37_StatelessIsOneShot ==
    \A c \in SeqCalls :
        obs[c].generates > 0 =>
            /\ obs[c].generates = 1
            /\ obs[c].sends = 0 /\ obs[c].rebuilds = 0 /\ obs[c].waited = 0
            /\ call[c].pc \in {"generate", "statelessValidator", "resolved", "rejected"}
            /\ call[c].pc = "rejected" =>
                 /\ call[c].outcome.e \in
                      IF obs[c].validatorCalls = 0 THEN {TransportError, ExtractionError}
                      ELSE ValidatorThrows
                 /\ \A n \in 0..(DEFAULT_MAX_RETRIES + MaxRetriesBound) :
                      ~IsAggregate(call[c].outcome.e, n)
            /\ call[c].pc = "resolved" =>
                 /\ call[c].outcome.v = obs[c].lastExtracted
                 /\ getLastUsage(lastResponseMetadata, cumulativeUsage)[1].attempts = 1

\* on an instance with maxRetries 2 a stateless call was rejected with the
\* error its validator threw
C37_Witness ==
    \E c \in SeqCalls :
        /\ inst.maxRetries = 2
        /\ obs[c].generates = 1
        /\ call[c].outcome = Rejected(Err(<<"Validation failed">>))

\* C35: when message() calls override enableGrounding or groundingConfig for
\* one message, then once no call is in flight the enableGrounding and
\* groundingConfig of the instance are what they were before the calls began,
\* whether the calls resolved or rejected (a rejection for an invalid payload
\* included).
C35_GroundingRestored ==
    (\A c \in Calls : ~InFlight(c)) =>
        /\ enableGrounding = FALSE
        /\ groundingConfig = "{}"

\* ------------------------------------------------------------- JSON texts
\* A text is the sequence of its characters.  JSON.parse is modelled by the
\* JSON grammar; the value it returns is represented by the text without the
\* whitespace between tokens, so two values are equal when these texts are (the
\* texts of the model have no duplicate keys and one spelling per number and
\* string).
Ws == {" ", "\n", "\t", "\r"}
Digits == {"0", "1", "2", "3", "4", "5", "6", "7", "8", "9"}

\* F of the value of v, with v evaluated once however often F refers to it
Once(v, F(_)) == CHOOSE r \in {F(x) : x \in {v}} : TRUE

\* the character at position i, "" beyond the ends
At(t, i) == IF i >= 1 /\ i <= Len(t) THEN t[i] ELSE ""

RECURSIVE SkipWs(_, _)
SkipWs(t, i) == IF At(t, i) \in Ws THEN SkipWs(t, i + 1) ELSE i

\* String.prototype.trim
trim(t) ==
    LET RECURSIVE SkipWsBack(_)
        SkipWsBack(i) == IF At(t, i) \in Ws THEN SkipWsBack(i - 1) ELSE i
    IN  SubSeq(t, SkipWs(t, 1), SkipWsBack(Len(t)))

RECURSIVE SkipDigits(_, _)
SkipDigits(t, i) == IF At(t, i) \in Digits THEN SkipDigits(t, i + 1) ELSE i

\* The parsers below take the position of the first character of what they
\* parse and give the position after it, or 0 when the text is not JSON there.
RECURSIVE StringEnd(_, _)
StringEnd(t, j) ==
    CASE j > Len(t) -> 0
      [] t[j] = "\"" -> j + 1
      [] t[j] = "\\" ->
            IF At(t, j + 1) \in {"\"", "\\", "/", "b", "f", "n", "r", "t"} THEN StringEnd(t, j + 2)
            ELSE IF /\ At(t, j + 1) = "u"
                    /\ \A k \in 2..5 :
                         At(t, j + k) \in Digits \cup {"a", "b", "c", "d", "e", "f",
                                                        "A", "B", "C", "D", "E", "F"}
                 THEN StringEnd(t, j + 6)
                 ELSE 0
      [] t[j] \in {"\n", "\t", "\r"} -> 0
      [] OTHER -> StringEnd(t, j + 1)

NumberEnd(t, i) ==
    LET a == IF At(t, i) = "-" THEN i + 1 ELSE i
        b == IF At(t, a) = "0" THEN a + 1
             ELSE IF At(t, a) \in Digits THEN SkipDigits(t, a + 1) ELSE 0
        c == IF b = 0 THEN 0
             ELSE IF At(t, b) # "." THEN b
             ELSE IF At(t, b + 1) \in Digits THEN SkipDigits(t, b + 1) ELSE 0
        d == IF At(t, c + 1) \in {"+", "-"} THEN c + 2 ELSE c + 1
    IN  IF c = 0 THEN 0
        ELSE IF At(t, c) \notin {"e", "E"} THEN c
        ELSE IF At(t, d) \in Digits THEN SkipDigits(t, d) ELSE 0

LiteralEnd(t, i, literal) ==
    IF i + Len(literal) - 1 <= Len(t) /\ SubSeq(t, i, i + Len(literal) - 1) = literal
    THEN i + Len(literal) ELSE 0

\* (the position a parser is given is evaluated once, before it parses)
RECURSIVE ValueEnd(_, _), MembersEnd(_, _), ElementsEnd(_, _)
ValueEnd(t, start) ==
    Once(start, LAMBDA i :
        CASE At(t, i) = "{" ->
                Once(SkipWs(t, i + 1), LAMBDA j :
                    IF At(t, j) = "}" THEN j + 1 ELSE MembersEnd(t, j))
          [] At(t, i) = "[" ->
                Once(SkipWs(t, i + 1), LAMBDA j :
                    IF At(t, j) = "]" THEN j + 1 ELSE ElementsEnd(t, j))
          [] At(t, i) = "\"" -> StringEnd(t, i + 1)
          [] At(t, i) = "t" -> LiteralEnd(t, i, <<"t", "r", "u", "e">>)
          [] At(t, i) = "f" -> LiteralEnd(t, i, <<"f", "a", "l", "s", "e">>)
          [] At(t, i) = "n" -> LiteralEnd(t, i, <<"n", "u", "l", "l">>)
          [] OTHER -> NumberEnd(t, i))

\* "key" : value, then a comma and more members or the closing brace
MembersEnd(t, start) ==
    Once(start, LAMBDA j :
        LET k == IF At(t, j) = "\"" THEN StringEnd(t, j + 1) ELSE 0
            c == IF k = 0 THEN 0 ELSE SkipWs(t, k)
            e == IF c = 0 \/ At(t, c) # ":" THEN 0 ELSE ValueEnd(t, SkipWs(t, c + 1))
            f == IF e = 0 THEN 0 ELSE SkipWs(t, e)
        IN  CASE f = 0 -> 0
              [] At(t, f) = "," -> MembersEnd(t, SkipWs(t, f + 1))
              [] At(t, f) = "}" -> f + 1
              [] OTHER -> 0)

ElementsEnd(t, start) ==
    Once(start, LAMBDA j :
        LET e == ValueEnd(t, j)
            f == IF e = 0 THEN 0 ELSE SkipWs(t, e)
        IN  CASE f = 0 -> 0
              [] At(t, f) = "," -> ElementsEnd(t, SkipWs(t, f + 1))
              [] At(t, f) = "]" -> f + 1
              [] OTHER -> 0)

\* JSON.parse(t) does not throw
JSONValid(t) ==
    \E s \in {t} :
        LET e == ValueEnd(s, SkipWs(s, 1)) IN
        e # 0 /\ SkipWs(s, e) = Len(s) + 1

\* the text without the whitespace outside its strings
RECURSIVE Compact(_, _, _)
Compact(t, i, inString) ==
    CASE i > Len(t) -> <<>>
      [] inString /\ t[i] = "\\" -> <<t[i], At(t, i + 1)>> \o Compact(t, i + 2, TRUE)
      [] t[i] = "\"" -> <<t[i]>> \o Compact(t, i + 1, ~inString)
      [] ~inString /\ t[i] \in Ws -> Compact(t, i + 1, FALSE)
      [] OTHER -> <<t[i]>> \o Compact(t, i + 1, inString)

\* JSON.parse(t): <<value>>, or <<>> when it throws
JSON_parse(t) ==
    Once(t, LAMBDA s : IF JSONValid(s) THEN <<Compact(s, 1, FALSE)>> ELSE <<>>)

\* isJSONStr lines 1282-1291: the text parses to an object or an array
isJSONStr(t) == \E s \in {t} : JSONValid(s) /\ At(s, SkipWs(s, 1)) \in {"{", "["}

\* ------------------------------------------------- the extraction strategies
\* the i flag of the patterns: the letters they name, in lower case
Lower(ch) ==
    LET upper == <<"E", "H", "I", "J", "N", "O", "R", "S", "T", "U", "Y">>
        lower == <<"e", "h", "i", "j", "n", "o", "r", "s", "t", "u", "y">>
    IN  IF \E k \in 1..Len(upper) : upper[k] = ch
        THEN lower[CHOOSE k \in 1..Len(upper) : upper[k] = ch]
        ELSE ch

LowerSeq(t) == [i \in 1..Len(t) |-> Lower(t[i])]

\* the first position at or after i where w occurs in t, or 0
IndexOf(t, w, i) ==
    LET found == {k \in i..(Len(t) - Len(w) + 1) : SubSeq(t, k, k + Len(w) - 1) = w}
    IN  IF found = {} THEN 0 ELSE CHOOSE k \in found : \A j \in found : k <= j

\* lines 1312-1317, 1332-1337, 1345-1349: the first candidate that isJSONStr
\* accepts is parsed and returned
FirstJSONStr(candidates) ==
    Once(candidates, LAMBDA cs :
        LET accepted == {k \in DOMAIN cs : isJSONStr(cs[k])}
        IN  IF accepted = {} THEN <<>>
            ELSE JSON_parse(cs[CHOOSE k \in accepted : \A j \in accepted : k <= j]))

\* the backquote character, which a TLA+ string cannot hold
Backquote == "BQ"
Fence == <<Backquote, Backquote, Backquote>>
JsonFence == Fence \o <<"j", "s", "o", "n">>

\* line 1313: the match without its fences (and the word json after the opening
\* one), trimmed
FenceContent(match) ==
    LET inner == SubSeq(match, Len(Fence) + 1, Len(match) - Len(Fence))
        tagged == Len(inner) >= 4 /\ LowerSeq(SubSeq(inner, 1, 4)) = <<"j", "s", "o", "n">>
    IN  trim(IF tagged THEN SubSeq(inner, 5, Len(inner)) ELSE inner)

\* lines 1305-1310: the contents of the matches of one code block pattern, from
\* position i on: an opening fence and the lazy run up to the next fence
RECURSIVE CodeBlocks(_, _, _)
CodeBlocks(t, opener, i) ==
    LET a == Once(LowerSeq(t), LAMBDA lower : IndexOf(lower, opener, i))
        b == IF a = 0 THEN 0 ELSE IndexOf(t, Fence, a + Len(opener))
    IN  IF b = 0 THEN <<>>
        ELSE <<FenceContent(SubSeq(t, a, b + Len(Fence) - 1))>>
             \o CodeBlocks(t, opener, b + Len(Fence))

\* lines 1324-1326: the greedy match from the first opening character to the
\* last closing one
GreedyMatch(t, open, close) ==
    LET a == IndexOf(t, <<open>>, 1)
        closing == {k \in 1..Len(t) : t[k] = close}
        b == IF closing = {} THEN 0 ELSE CHOOSE k \in closing : \A j \in closing : k >= j
    IN  IF a # 0 /\ b > a THEN <<SubSeq(t, a, b)>> ELSE <<>>

\* extractCompleteStructure lines 1393-1431: the position where the structure
\* opened at startPos closes, or 0; only its own kind of bracket is counted
RECURSIVE StructureEnd(_, _, _, _, _, _)
StructureEnd(t, startPos, i, depth, inString, escaped) ==
    LET endChar == IF t[startPos] = "{" THEN "}" ELSE "]" IN
    CASE i > Len(t) -> 0
      [] escaped -> StructureEnd(t, startPos, i + 1, depth, inString, FALSE)
      [] t[i] = "\\" /\ inString -> StructureEnd(t, startPos, i + 1, depth, inString, TRUE)
      [] t[i] = "\"" -> StructureEnd(t, startPos, i + 1, depth, ~inString, FALSE)
      [] ~inString /\ t[i] = t[startPos] ->
            StructureEnd(t, startPos, i + 1, depth + 1, inString, FALSE)
      [] ~inString /\ t[i] = endChar ->
            IF depth - 1 = 0 THEN i
            ELSE StructureEnd(t, startPos, i + 1, depth - 1, inString, FALSE)
      [] OTHER -> StructureEnd(t, startPos, i + 1, depth, inString, FALSE)

extractCompleteStructureMutant(t, startPos) ==
    LET e == IndexOf(t, <<IF t[startPos] = "{" THEN "}" ELSE "]">>, startPos) IN
    IF e = 0 THEN <<>> ELSE <<SubSeq(t, startPos, e)>>

extractCompleteStructure(t, startPos) ==
    LET e == StructureEnd(t, startPos, startPos, 0, FALSE, FALSE) IN
    IF e = 0 THEN <<>> ELSE <<SubSeq(t, startPos, e)>>

\* findCompleteJSONStructures lines 1376-1390, from position i on
RECURSIVE findCompleteJSONStructures(_, _)
findCompleteJSONStructures(t, i) ==
    LET found == {k \in i..Len(t) : t[k] \in {"{", "["}}
        a == CHOOSE k \in found : \A j \in found : k <= j
    IN  IF found = {} THEN <<>>
        ELSE extractCompleteStructure(t, a) \o findCompleteJSONStructures(t, a + 1)

\* ---- Strategy 5, lines 1353-1359. The pieces of the three intro patterns take
\* the position where they start and give the position after what they match,
\* or 0 when they do not match (or when the piece before them did not).
LineTerminators == {"\n", "\r"}

\* a word, letter case ignored
Word(t, i, w) ==
    IF i # 0 /\ i + Len(w) - 1 <= Len(t) /\ LowerSeq(SubSeq(t, i, i + Len(w) - 1)) = w
    THEN i + Len(w) ELSE 0

\* \s* and \s+
Spaces(t, i, atLeastOne) ==
    IF i = 0 \/ (atLeastOne /\ At(t, i) \notin Ws) THEN 0 ELSE SkipWs(t, i)

\* an optional character, letter case ignored
Optional(t, i, ch) == IF i # 0 /\ Lower(At(t, i)) = ch THEN i + 1 ELSE i

\* the first position at or after i that holds one of the characters, or 0;
\* the scan does not pass a character of stops
FirstOf(t, i, chars, stops) ==
    LET found == {k \in i..Len(t) : t[k] \in chars \cup stops}
        first == CHOOSE k \in found : \A j \in found : k <= j
    IN  IF found = {} THEN 0 ELSE IF t[first] \in chars THEN first ELSE 0

\* the last line feed in positions from..to, or 0
LastLineFeed(t, from, to) ==
    LET found == {k \in from..to : t[k] = "\n"}
    IN  IF found = {} THEN 0 ELSE CHOOSE k \in found : \A j \in found : k >= j

\* \s+.*?[:\n] from position i: the blanks, then the shortest run without a
\* line terminator up to a colon or a line feed; failing that, the blanks give
\* back up to their last line feed. The result is the position of the [:\n].
IntroTail(t, i) ==
    LET q == Spaces(t, i, TRUE)
        e == IF q = 0 THEN 0 ELSE FirstOf(t, q, {":", "\n"}, LineTerminators)
    IN  IF q = 0 THEN 0
        ELSE IF e # 0 THEN e
        ELSE LastLineFeed(t, i + 1, q - 1)

\* is\s*[:\n] with is at the first position at or after k that allows it, the
\* run before it without a line terminator
RECURSIVE IsTail(_, _)
IsTail(t, k) ==
    LET r == Spaces(t, Word(t, k, <<"i", "s">>), FALSE)
        e == IF r = 0 THEN 0
             ELSE IF At(t, r) = ":" THEN r
             ELSE LastLineFeed(t, k + 2, r - 1)
    IN  IF k > Len(t) THEN 0
        ELSE IF e # 0 THEN e
        ELSE IF t[k] \in LineTerminators THEN 0
        ELSE IsTail(t, k + 1)

\* the text without its first e characters, the whole text when e is 0
Without(t, e) == IF e = 0 THEN t ELSE SubSeq(t, e + 1, Len(t))

\* line 1354: /^\s*Sure,?\s*here\s+is\s+your?\s+.*?[:\n]/gi
RemoveSureHereIs(t) ==
    LET sure == Word(t, Spaces(t, 1, FALSE), <<"s", "u", "r", "e">>)
        here == Word(t, Spaces(t, Optional(t, sure, ","), FALSE), <<"h", "e", "r", "e">>)
        is   == Word(t, Spaces(t, here, TRUE), <<"i", "s">>)
        you  == Word(t, Spaces(t, is, TRUE), <<"y", "o", "u">>)
    IN  Without(t, IF you = 0 THEN 0 ELSE IntroTail(t, Optional(t, you, "r")))

\* line 1355: /^\s*Here\s+is\s+the\s+.*?[:\n]/gi
RemoveHereIsThe(t) ==
    LET here == Word(t, Spaces(t, 1, FALSE), <<"h", "e", "r", "e">>)
        is   == Word(t, Spaces(t, here, TRUE), <<"i", "s">>)
        the  == Word(t, Spaces(t, is, TRUE), <<"t", "h", "e">>)
    IN  Without(t, IF the = 0 THEN 0 ELSE IntroTail(t, the))

\* line 1356: /^\s*The\s+.*?is\s*[:\n]/gi
RemoveTheIs(t) ==
    LET the == Word(t, Spaces(t, 1, FALSE), <<"t", "h", "e">>)
        q   == Spaces(t, the, TRUE)
    IN  Without(t, IF q = 0 THEN 0 ELSE IsTail(t, q))

\* lines 1357-1358: the text from position i on without its comments, which
\* start with opener and run up to the first closer after it (closer included),
\* or, with no closer given, up to the end of the line
RECURSIVE RemoveComments(_, _, _, _)
RemoveComments(t, i, opener, closer) ==
    LET a == IndexOf(t, opener, i)
        b == IF a = 0 THEN 0
             ELSE IF closer # <<>> THEN IndexOf(t, closer, a + Len(opener))
             ELSE LET e == FirstOf(t, a, LineTerminators, {}) IN
                  IF e = 0 THEN Len(t) + 1 ELSE e
        next == IF closer # <<>> THEN b + Len(closer) ELSE b
    IN  IF b = 0 THEN SubSeq(t, i, Len(t))
        ELSE SubSeq(t, i, a - 1) \o RemoveComments(t, next, opener, closer)

cleanedText(t) ==
    Once(RemoveSureHereIs(t), LAMBDA t1 :
    Once(RemoveHereIsThe(t1), LAMBDA t2 :
    Once(RemoveTheIs(t2), LAMBDA t3 :
    Once(RemoveComments(t3, 1, <<"/", "*">>, <<"*", "/">>), LAMBDA t4 :
    Once(RemoveComments(t4, 1, <<"/", "/">>, <<>>), LAMBDA t5 : trim(t5))))))

\* ---- Strategy 6: attemptJSONRecovery, lines 1108-1266
maxAttempts == 100
\* line 1185 (and 1154): only a text longer than this is repaired
MinRepairLength == 2
\* line 1235: closing characters are tried once i has passed this
CloseAfter == 5

\* lines 1122-1151 and 1190-1219: the open braces and brackets of w and whether
\* it ends inside a string. The loop skips the character after a backslash it
\* did not skip, so a character is skipped when an odd run of backslashes
\* stands before it; a quote that is not skipped toggles inString, and the
\* braces and brackets that are neither skipped nor in a string are counted.
Counts(workingText) ==
    Once(workingText, LAMBDA w :
        LET Skipped(j) ==
                LET others == {k \in 1..(j - 1) : w[k] # "\\"}
                    last == IF others = {} THEN 0
                            ELSE CHOOSE k \in others : \A m \in others : k >= m
                IN  (j - 1 - last) % 2 = 1
            quotes == {k \in 1..Len(w) : w[k] = "\"" /\ ~Skipped(k)}
            inString(j) == Cardinality({k \in quotes : k < j}) % 2 = 1
            Count(ch) ==
                Cardinality({k \in 1..Len(w) : w[k] = ch /\ ~Skipped(k) /\ ~inString(k)})
        IN  [braces |-> Count("{") - Count("}"),
             brackets |-> Count("[") - Count("]"),
             inString |-> Cardinality(quotes) % 2 = 1])

\* lines 1155-1170 and 1236-1251: the quote of an open string, then every
\* missing brace, then every missing bracket
fixedText(w) ==
    Once(Counts(w), LAMBDA st :
        LET Repeat(ch, n) == [k \in 1..n |-> ch]
        IN  w \o (IF st.inString THEN <<"\"">> ELSE <<>>)
              \o Repeat("}", st.braces) \o Repeat("]", st.brackets))

\* lines 1185-1263: the loop over the working text w. Pass i works on w
\* without its last i + 1 characters; the first pass that parses something
\* returns it.
RemoveFromEnd(w) ==
    LET asIs(shorter) ==
            LET st == Counts(shorter) IN
            st.braces = 0 /\ st.brackets = 0 /\ ~st.inString /\ JSONValid(shorter)
        parses(i) ==
            \E shorter \in {SubSeq(w, 1, Len(w) - (i + 1))} :
                asIs(shorter) \/ (i > CloseAfter /\ JSONValid(fixedText(shorter)))
        passes == {i \in 0..(maxAttempts - 1) : Len(w) - i > MinRepairLength}
    IN  Once({i \in passes : parses(i)}, LAMBDA parsing :
            IF parsing = {} THEN <<>>
            ELSE Once(SubSeq(w, 1, Len(w) - (1 + CHOOSE i \in parsing :
                                                   \A j \in parsing : i <= j)),
                      LAMBDA shorter :
                          IF asIs(shorter) THEN JSON_parse(shorter)
                          ELSE JSON_parse(fixedText(shorter))))

\* the parsed value, or <<>> for the null the code returns when it gives up;
\* a text that is the JSON null gives the value null
attemptJSONRecovery(t) ==
    IF t = <<>> THEN <<>>
    ELSE IF JSONValid(t) THEN JSON_parse(t)
    ELSE Once(trim(t), LAMBDA workingText :
            LET st == Counts(workingText)
                open == st.braces > 0 \/ st.brackets > 0 \/ st.inString
            IN  IF /\ open
                   /\ Len(workingText) > MinRepairLength
                   /\ JSONValid(fixedText(workingText))
                THEN JSON_parse(fixedText(workingText))
                ELSE RemoveFromEnd(workingText))

\* ---- extractJSON, lines 1293-1374
Returned(v) == [s |-> "returned", v |-> v, msg |-> <<>>]
Thrown(msg) == [s |-> "threw", v |-> <<>>, msg |-> msg]

\* line 1373: text.substring(0, 200)
PreviewLength == 200
ResponsePreviewMutant(t) == t
ResponsePreview(t) == SubSeq(t, 1, IF Len(t) < PreviewLength THEN Len(t) ELSE PreviewLength)

null == <<"n", "u", "l", "l">>

\* lines 1298-1363: what strategies 1 to 5 hand to isJSONStr, in their order:
\* the whole text trimmed; every block fenced with the word json, then every
\* fenced block; the greedy object pattern, then the greedy array pattern; the
\* complete structures; the cleaned text
Candidates(t) ==
    <<trim(t)>>
    \o CodeBlocks(t, JsonFence, 1) \o CodeBlocks(t, Fence, 1)
    \o GreedyMatch(t, "{", "}") \o GreedyMatch(t, "[", "]")
    \o findCompleteJSONStructures(t, 1)
    \o <<cleanedText(t)>>

\* the value of the first strategy that gives one; the null of recovery counts
\* as nothing (line 1368)
FirstOfStrategies(t) ==
    Once(FirstJSONStr(Candidates(t)), LAMBDA found :
        IF found # <<>> THEN found
        ELSE Once(attemptJSONRecovery(t), LAMBDA recoveredJSON :
                IF recoveredJSON = <<null>> THEN <<>> ELSE recoveredJSON))

\* extractJSON on the characters of its argument
extractJSONText(input) ==
    IF input.type # "string" \/ input.chars = <<>>
    THEN Thrown(<<"No text provided for JSON extraction">>)
    ELSE Once(FirstOfStrategies(input.chars), LAMBDA found :
            IF found # <<>> THEN Returned(found[1])
            ELSE Thrown(<<"Could not extract valid JSON from model response. Response preview: ">>
                        \o ResponsePreview(input.chars) \o <<"...">>))

\* -------------------------------------------- extractJSON on reply texts
\* A reply is cut short when it reaches maxOutputTokens: at most this many
\* characters are missing from the end of a text
MaxCut == 4

\* The texts extractJSON is given:
\*   {"a": 1, "b": [1,2]}    [1,{"a":2}]    null    7    true    "hi"
\*   "x [1,2]"    a padded {"a":1}    a fenced {"a":1}    ok {"a":1} .
\*   {"a":1} {"b":2}    {/*x*/"a":1}    nope    205 characters of prose
\* and the empty string
ExtractTexts ==
    LET a1 == <<"{", "\"", "a", "\"", ":", "1", "}">>
        b2 == <<"{", "\"", "b", "\"", ":", "2", "}">>
        \* 205 characters of prose, the last five unlike the others
        LongProse ==
            [i \in 1..(PreviewLength + 5) |-> IF i <= PreviewLength THEN "a" ELSE "b"]
    IN  { <<"{", "\"", "a", "\"", ":", " ", "1", ",", " ",
            "\"", "b", "\"", ":", " ", "[", "1", ",", "2", "]", "}">>,
          <<"[", "1", ",", "{", "\"", "a", "\"", ":", "2", "}", "]">>,
          null,
          <<"7">>,
          <<"t", "r", "u", "e">>,
          <<"\"", "h", "i", "\"">>,
          <<"\"", "x", " ", "[", "1", ",", "2", "]", "\"">>,
          <<" ", "\n">> \o a1 \o <<" ">>,
          JsonFence \o <<"\n">> \o a1 \o <<"\n">> \o Fence,
          <<"o", "k", " ">> \o a1 \o <<" ", ".">>,
          a1 \o <<" ">> \o b2,
          <<"{", "/", "*", "x", "*", "/", "\"", "a", "\"", ":", "1", "}">>,
          <<"n", "o", "p", "e">>,
          LongProse,
          <<>> }

\* the arguments of extractJSON: a text, or something that is not a string
ExtractInputs ==
    {String(chars) : chars \in ExtractTexts}
    \cup {NotAString(type) : type \in {"undefined", "object"}}

ParserInit ==
    /\ InitInstance
    /\ service = NoService
    /\ inst.maxRetries = DEFAULT_MAX_RETRIES
    /\ inst.retryDelay = DEFAULT_RETRY_DELAY
    /\ ~inst.asyncValidator
    /\ text \in ExtractInputs
    /\ result = NotExtracted

\* the reply was cut one character earlier
Truncate ==
    /\ text.type = "string"
    /\ \E whole \in ExtractTexts :
         /\ Len(text.chars) >= 1
         /\ Len(text.chars) <= Len(whole)
         /\ Len(whole) - Len(text.chars) < MaxCut
         /\ SubSeq(whole, 1, Len(text.chars)) = text.chars
    /\ text' = String(SubSeq(text.chars, 1, Len(text.chars) - 1))
    /\ result' = NotExtracted
    /\ UNCHANGED <<inst, chat, enableGrounding, groundingConfig, lastResponseMetadata,
                   cumulativeUsage, call, obs, created, passed, given, session, service>>

\* extractJSON(text)
Extract ==
    /\ result' = extractJSONText(text)
    /\ UNCHANGED <<inst, chat, enableGrounding, groundingConfig, lastResponseMetadata,
                   cumulativeUsage, call, obs, created, passed, given, session, service,
                   text>>

ParserNext == Truncate \/ Extract

SpecParser == ParserInit /\ [][ParserNext]_vars

\* C17: for any valid JSON text (object, array, string, number, boolean or
\* null, strings containing brackets or braces included), extractJSON returns
\* the value JSON.parse gives for it.
C17_ValidJSONIsParsed ==
    (result # NotExtracted /\ text.type = "string" /\ JSONValid(text.chars))
        => result = Returned(JSON_parse(text.chars)[1])

\* C18: when a JSON document was cut off inside its arrays and objects
\* (possibly inside a string) and closing the open string and then the open
\* brackets, the last opened first, gives a JSON text again, extractJSON
\* returns the value of that text, so that all complete content is kept.
C18_ClosedInLIFOOrder ==
    LET RECURSIVE Closers(_, _, _, _)
        \* the closers of the brackets open at the end of t, innermost first
        Closers(t, j, open, mode) ==
            CASE j > Len(t) -> (IF mode = "out" THEN <<>> ELSE <<"\"">>) \o open
              [] mode = "escape" -> Closers(t, j + 1, open, "string")
              [] mode = "string" /\ t[j] = "\\" -> Closers(t, j + 1, open, "escape")
              [] t[j] = "\"" ->
                    Closers(t, j + 1, open, IF mode = "out" THEN "string" ELSE "out")
              [] mode = "out" /\ t[j] = "{" -> Closers(t, j + 1, <<"}">> \o open, mode)
              [] mode = "out" /\ t[j] = "[" -> Closers(t, j + 1, <<"]">> \o open, mode)
              [] mode = "out" /\ t[j] \in {"}", "]"} /\ open # <<>> ->
                    Closers(t, j + 1, Tail(open), mode)
              [] OTHER -> Closers(t, j + 1, open, mode)
        closed == text.chars \o Closers(text.chars, 1, <<>>, "out")
    IN  (/\ result # NotExtracted
         /\ text.type = "string"
         /\ \E whole \in ExtractTexts :
              /\ isJSONStr(whole)
              /\ Len(text.chars) < Len(whole)
              /\ SubSeq(whole, 1, Len(text.chars)) = text.chars
         /\ ~JSONValid(text.chars)
         /\ JSONValid(closed))
        => result = Returned(JSON_parse(closed)[1])

\* C19: extractJSON throws on an input that is empty or not a string, and when
\* no strategy gives a value it throws an error whose message holds the first
\* 200 characters of the text and no more of the text; it returns no value in
\* either case.
C19_FailsWithBoundedPreview ==
    LET t == text.chars
        preview == SubSeq(t, 1, IF Len(t) < 200 THEN Len(t) ELSE 200)
    IN  /\ (result # NotExtracted /\ (text.type # "string" \/ t = <<>>))
            => result.s = "threw" /\ result.v = <<>>
        /\ (result # NotExtracted /\ text.type = "string" /\ t # <<>>
            /\ FirstOfStrategies(t) = <<>>)
            => /\ result.s = "threw"
               /\ result.v = <<>>
               /\ Contains(result.msg, preview)
               /\ Len(t) > 200 => ~Contains(result.msg, SubSeq(t, 1, 201))

\* a text longer than the preview was given and extractJSON threw
C19_Witness ==
    /\ result.s = "threw"
    /\ text.type = "string"
    /\ Len(text.chars) > 200

\* C20: getLastUsage() returns null while no model call has been made on the
\* instance; once a message() call that received a reply has settled it
\* returns that call's attempts and the tokens its replies reported, summed
\* over its attempts.
C20_UsageAfterAResponse ==
    LET u == getLastUsage(lastResponseMetadata, cumulativeUsage) IN
    /\ (\A c \in Calls : obs[c].sends + obs[c].rebuilds + obs[c].generates = 0)
        => u = <<>>
    /\ \A c \in SequenceCalls :
        (Settled(c) /\ LatestCall(c) /\ obs[c].extractions > 0) =>
            /\ u # <<>>
            /\ u[1].attempts = AttemptsMade(c) + obs[c].generates
            /\ u[1].promptTokens = obs[c].reported.promptTokens
            /\ u[1].responseTokens = obs[c].reported.responseTokens
            /\ u[1].totalTokens = obs[c].reported.totalTokens

\* ------------------------------------------- the options of the constructor
\* new AITransformer({maxRetries, retryDelay, asyncValidator, onlyJSON}) with
\* each option absent or given; 0 is a value of both numeric options
ConstructedInit ==
    /\ \E options \in [maxRetries : Opt(0..MaxRetriesBound),
                       retryDelay : Opt({0} \cup RetryDelays),
                       asyncValidator : BOOLEAN, onlyJSON : Opt(BOOLEAN)] :
         AITransformFactory(options)
    /\ service = NoService
    /\ text = NotAString("undefined")
    /\ result = NotExtracted

\* init(), then message(payload) or message(payload, {}, validatorFn): no
\* per-call override
ConstructedNext ==
    \/ InitChat /\ UNCHANGED aux
    \/ \E c \in SeqCalls, withValidator \in BOOLEAN :
         /\ prepareAndValidateMessageWith(c, "message", "object", NoOptions, withValidator)
         /\ UNCHANGED aux
    \/ \E c \in SeqCalls : ModelReturn(c) /\ UNCHANGED aux
    \/ \E c \in SeqCalls : ValidatorReturn(c) /\ UNCHANGED aux
    \/ \E c \in SeqCalls : BackoffReturn(c) /\ UNCHANGED aux

SpecConstructed == ConstructedInit /\ [][ConstructedNext]_vars

\* C21: an attempt of message() fails on a reply that is not JSON only when
\* the transformer was not constructed with onlyJSON: false, and then with an
\* 'Invalid JSON response' error; with onlyJSON: false the plain text is the
\* value of the attempt.
C21_PlainTextAllowedUnlessOnlyJSON ==
    \A c \in SeqCalls :
        (/\ obs[c].failMsg # <<>>
         /\ Contains(obs[c].failMsg[1],
                <<"Could not extract valid JSON from model response. Response preview: ">>)) =>
            /\ given.onlyJSON # <<FALSE>>
            /\ Head(obs[c].failMsg[1]) = "Invalid JSON response from Gemini: "

\* C26: a message() call that is given no validator uses the constructor's
\* asyncValidator; the validator in effect is invoked once for every attempt
\* that produced a value: once when the first value is accepted, maxRetries+1
\* times when every attempt produced a value and none was accepted.
C26_ValidatorInEffect ==
    \A c \in SeqCalls :
        /\ (call[c].pc # "idle" /\ call[c].validatorFn # "call") =>
              call[c].validatorFn = IF given.asyncValidator THEN "instance" ELSE "none"
        /\ call[c].validatorFn # "none" => obs[c].validatorCalls = obs[c].extractions
        /\ (Settled(c) /\ call[c].validatorFn # "none"
              /\ obs[c].extractions = AttemptsMade(c) /\ obs[c].extractions > 0) =>
              IF obs[c].accepted
              THEN obs[c].validatorCalls = obs[c].extractions
              ELSE obs[c].validatorCalls = call[c].maxRetries + 1

\* C27: the maxRetries m >= 0 and the retryDelay d >= 0 given to the
\* constructor are the values of the instance, and a message() call without
\* overrides makes at most m+1 attempts and backs off from the base delay d.
C27_ConstructorValuesKept ==
    /\ given.maxRetries # <<>> => inst.maxRetries = given.maxRetries[1]
    /\ given.retryDelay # <<>> => inst.retryDelay = given.retryDelay[1]
    /\ \A c \in SeqCalls :
         call[c].pc # "idle" =>
            /\ given.maxRetries # <<>> => AttemptsMade(c) <= given.maxRetries[1] + 1
            /\ given.retryDelay # <<>> => call[c].retryDelay = given.retryDelay[1]

\* --------------------------------------------- the reply of a rebuild request
\* rebuildPayload lines 778-783 on the reply it received: result.text, or ''
\* when there is none, is returned as it is when it is an object and is
\* handed to JSON.parse otherwise
Rebuild ==
    /\ result' =
         IF text.type = "object" THEN Returned(text)
         ELSE Once(JSON_parse(text.chars), LAMBDA parsed :
                IF parsed # <<>> THEN Returned(parsed[1])
                ELSE Thrown(RebuildParseError(JSONParseError).msg))
    /\ UNCHANGED <<inst, chat, enableGrounding, groundingConfig, lastResponseMetadata,
                   cumulativeUsage, call, obs, created, passed, given, session, service,
                   text>>

RebuildNext == Truncate \/ Rebuild

SpecRebuild == ParserInit /\ [][RebuildNext]_vars

\* C30: the text of a rebuild reply goes through the extraction chain of
\* extractJSON: whenever the chain gives a value for the text (bare, fenced,
\* after a preamble, with comments, or truncated), the rebuild attempt yields
\* a value.
C30_RebuildReplyExtracted ==
    (result # NotExtracted /\ text.type = "string"
        /\ extractJSONText(text).s = "returned")
        => result.s = "returned"

\* ------------------------------------------------- the session and its history
\* at most this many examples in one seed() call
MaxExamples == 2
\* at most this many chat objects are created on one instance
MaxSessions == 4
\* at most this many entries in the history of a chat
MaxHistory == 6

\* genAIClient.chats.create({history}): a new chat object holding the history
\* it was given; op is the method that asked for it
ChatsCreate(s, history, op) ==
    [s EXCEPT !.chat = <<[id |-> s.creates + 1, history |-> history]>>,
              !.creates = @ + 1, !.last = op]

\* what no session operation writes
SessionFrame ==
    <<inst, enableGrounding, groundingConfig, call, obs, created, passed, given, service,
      text, result>>

\* initChat(force), lines 368-404; the outcome of models.list() changes nothing
initChatMutant(force) ==
    /\ \A c \in SeqCalls : ~InFlight(c)
    /\ session.creates < MaxSessions
    /\ session' = ChatsCreate(session, <<>>, IF force THEN "init(true)" ELSE "init")
    /\ chat' = NewChat(enableGrounding)
    /\ UNCHANGED <<lastResponseMetadata, cumulativeUsage>>
    /\ UNCHANGED SessionFrame
initChat(force) ==
    /\ \A c \in SeqCalls : ~InFlight(c)
    /\ IF session.chat # <<>> /\ ~force
       THEN /\ session' = [session EXCEPT !.last = "init"]
            /\ UNCHANGED chat
       ELSE /\ session.creates < MaxSessions
            /\ session' = ChatsCreate(session, <<>>, IF force THEN "init(true)" ELSE "init")
            /\ chat' = NewChat(enableGrounding)
    /\ UNCHANGED <<lastResponseMetadata, cumulativeUsage>>
    /\ UNCHANGED SessionFrame

\* seedWithExamples lines 454-486: the entries of the examples, each value
\* being its characters (<<>> when the key is missing or its value is falsy)
HistoryToAddMutant(examples) ==
    LET RECURSIVE Entries(_)
        Entries(k) ==
            IF k > Len(examples) THEN <<>>
            ELSE LET example == examples[k]
                     userText == example.PROMPT
                     modelText == <<"{">> \o example.ANSWER \o <<"}">>
                 IN  (IF Len(trim(userText)) > 0 /\ Len(trim(modelText)) > 0
                      THEN <<[role |-> "user", text |-> trim(userText)],
                             [role |-> "model", text |-> trim(modelText)]>>
                      ELSE <<>>) \o Entries(k + 1)
    IN  Entries(1)
HistoryToAdd(examples) ==
    LET RECURSIVE Entries(_)
        Entries(k) ==
            IF k > Len(examples) THEN <<>>
            ELSE LET example == examples[k]
                     userText ==
                        (IF example.CONTEXT # <<>>
                         THEN <<"CONTEXT:", "\n">> \o example.CONTEXT \o <<"\n", "\n">>
                         ELSE <<>>) \o example.PROMPT
                     modelText == <<"{">> \o example.ANSWER \o <<"}">>
                 IN  (IF Len(trim(userText)) > 0 /\ Len(trim(modelText)) > 0
                      THEN <<[role |-> "user", text |-> trim(userText)],
                             [role |-> "model", text |-> trim(modelText)]>>
                      ELSE <<>>) \o Entries(k + 1)
    IN  Entries(1)

\* seed(examples), lines 406-505, on an instance without examplesFile and
\* exampleData and for examples without the system instructions key
seedWithExamples(examples) ==
    LET initialized == IF session.chat = <<>> THEN ChatsCreate(session, <<>>, "init")
                       ELSE session
        currentHistory == initialized.chat[1].history
        historyToAdd == HistoryToAdd(examples)
    IN  /\ \A c \in SeqCalls : ~InFlight(c)
        /\ initialized.creates < MaxSessions
        /\ Len(currentHistory) + Len(historyToAdd) <= MaxHistory
        /\ session' =
             IF examples = <<>> THEN [initialized EXCEPT !.last = "seed"]
             ELSE [ChatsCreate(initialized, currentHistory \o historyToAdd, "seed")
                     EXCEPT !.exampleCount = Len(currentHistory) + Len(historyToAdd)]
        /\ chat' = IF examples # <<>> THEN NewChat(FALSE)
                   ELSE IF chat = <<>> THEN NewChat(enableGrounding) ELSE chat
        /\ UNCHANGED <<lastResponseMetadata, cumulativeUsage>>
        /\ UNCHANGED SessionFrame

\* reset(), lines 875-903
resetChat ==
    /\ \A c \in SeqCalls : ~InFlight(c)
    /\ IF session.chat # <<>>
       THEN /\ session.creates < MaxSessions
            /\ session' = ChatsCreate(session, <<>>, "reset")
            /\ chat' = NewChat(enableGrounding)
       ELSE /\ session' = [session EXCEPT !.last = "reset"]
            /\ UNCHANGED chat
    /\ UNCHANGED <<lastResponseMetadata, cumulativeUsage>>
    /\ UNCHANGED SessionFrame

\* updateSystemInstructions(newInstructions) with a non-empty string, lines 922-932
updateSystemInstructions ==
    /\ \A c \in SeqCalls : ~InFlight(c)
    /\ session.creates < MaxSessions
    /\ session' = ChatsCreate(session, <<>>, "updateSystemInstructions")
    /\ chat' = NewChat(enableGrounding)
    /\ UNCHANGED <<lastResponseMetadata, cumulativeUsage>>
    /\ UNCHANGED SessionFrame

\* clearConversation(), lines 942-971
clearConversation ==
    /\ \A c \in SeqCalls : ~InFlight(c)
    /\ IF session.chat = <<>>
       THEN /\ session' = [session EXCEPT !.last = "clearConversation"]
            /\ UNCHANGED <<chat, lastResponseMetadata, cumulativeUsage>>
       ELSE LET history == session.chat[1].history
                exampleHistory ==
                    SubSeq(history, 1, IF session.exampleCount < Len(history)
                                       THEN session.exampleCount ELSE Len(history))
            IN  /\ session.creates < MaxSessions
                /\ session' = ChatsCreate(session, exampleHistory, "clearConversation")
                /\ chat' = NewChat(FALSE)
                /\ lastResponseMetadata' = <<>>
                /\ cumulativeUsage' = ZeroUsage
    /\ UNCHANGED SessionFrame

\* statelessMessage lines 1046-1053: generateContent is a request of the
\* client, this.chat takes no part in it
StatelessSessionMutant(s) ==
    IF s.chat = <<>> THEN s
    ELSE [s EXCEPT !.chat[1].history = @ \o <<[role |-> "user", text |-> <<"payload">>],
                                              [role |-> "model", text |-> <<"reply">>]>>]
StatelessSession(s) == s

\* the arguments of seed(): lists of examples with a prompt and an answer,
\* with a context only, with an answer only, and with a prompt of white space
ExampleLists ==
    UNION {[1..n -> {[CONTEXT |-> <<>>, PROMPT |-> <<"p", " ">>, ANSWER |-> <<"a">>],
                     [CONTEXT |-> <<"c">>, PROMPT |-> <<>>, ANSWER |-> <<>>],
                     [CONTEXT |-> <<>>, PROMPT |-> <<>>, ANSWER |-> <<"a">>],
                     [CONTEXT |-> <<>>, PROMPT |-> <<" ">>, ANSWER |-> <<"a">>]}]
           : n \in 0..MaxExamples}

\* new AITransformer({maxRetries: 1})
SessionInit ==
    /\ AITransformFactory([maxRetries |-> <<1>>, retryDelay |-> <<>>,
                           asyncValidator |-> FALSE, onlyJSON |-> <<>>])
    /\ service = NoService
    /\ text = NotAString("undefined")
    /\ result = NotExtracted

\* The methods are called one after another. A chat.sendMessage that returns
\* a reply leaves the request and the reply in the history of the chat.
SessionNext ==
    \/ \E force \in BOOLEAN : initChat(force)
    \/ \E examples \in ExampleLists : seedWithExamples(examples)
    \/ resetChat
    \/ updateSystemInstructions
    \/ clearConversation
    \/ \E c \in SeqCalls, options \in {[NoOptions EXCEPT !.maxRetries = <<0>>],
                                       [NoOptions EXCEPT !.stateless = TRUE]} :
         /\ session.chat # <<>> => Len(session.chat[1].history) + 2 <= MaxHistory
         /\ prepareAndValidateMessageWith(c, "message", "object", options, FALSE)
         /\ passed' = [passed EXCEPT ![c] = options]
         /\ UNCHANGED <<created, given, session, service, text, result>>
    \/ \E c \in SeqCalls :
         /\ ModelReturn(c)
         /\ session' =
              IF /\ obs'[c].failedAt = call[c].attempt
                 /\ Contains(obs'[c].failMsg[1], TransportError.msg)
              THEN session
              ELSE [session EXCEPT
                      !.chat[1].history = @ \o <<[role |-> "user", text |-> <<"payload">>],
                                                 [role |-> "model", text |-> <<"reply">>]>>,
                      !.last = "message"]
         /\ UNCHANGED <<created, passed, given, service, text, result>>
    \/ \E c \in SeqCalls :
         /\ GenerateReturn(c)
         /\ session' = StatelessSession(session)
         /\ UNCHANGED <<created, passed, given, service, text, result>>

SpecSession == SessionInit /\ [][SessionNext]_vars

\* C22: clearConversation() leaves as history exactly the entries of the
\* history that seed() added, in their order: the request and the reply of
\* every message() turn are removed and no seeded entry is dropped.
C22_ClearKeepsExactlySeeded ==
    [][(clearConversation /\ session.chat # <<>>) =>
          session'.chat[1].history =
              SelectSeq(session.chat[1].history,
                        LAMBDA e : e.text \notin {<<"payload">>, <<"reply">>})]_vars

\* C23: no step of a message() call with stateless: true, from its start to
\* its resolution or rejection, changes the chat session or its history.
C23_StatelessLeavesSession ==
    [][\A c \in SeqCalls :
          (call'[c] # call[c] /\ (call[c].pc = "generate" \/ call'[c].pc = "generate")) =>
              /\ session' = session
              /\ chat' = chat]_vars

\* a stateless call was rejected on a session that holds a history
C23_Witness ==
    \E c \in SeqCalls :
        /\ obs[c].generates > 0
        /\ call[c].pc = "rejected"
        /\ session.chat # <<>>
        /\ Len(session.chat[1].history) > 0

\* C24: init() on an instance that has a chat session creates no session and
\* leaves this.chat the same object, however often it is called; init(true)
\* always puts a newly created session in its place.
C24_InitIdempotent ==
    [][/\ (initChat(FALSE) /\ session.chat # <<>>) =>
            /\ session'.chat = session.chat
            /\ session'.creates = session.creates
            /\ chat' = chat
       /\ initChat(TRUE) =>
            /\ session'.creates = session.creates + 1
            /\ session'.chat # session.chat
            /\ session'.chat[1].id = session'.creates]_vars

\* init() was called on an instance whose session had already been replaced
C24_Witness ==
    /\ session.last = "init"
    /\ session.creates >= 2

Requests == {1, 2}

\* mergeParams lines 18-37 (part_012): the parameters of the body override
\* those of the query; a parameter that is not given is <<>>
mergeParamsMutant(req) ==
    [k \in DOMAIN req.body |-> IF req.query[k] # <<>> THEN req.query[k] ELSE req.body[k]]
mergeParams(req) ==
    [k \in DOMAIN req.body |-> IF req.body[k] # <<>> THEN req.body[k] ELSE req.query[k]]

\* checkAuth lines 81-91 (part_012); a || b takes the first parameter given
checkAuth(CODE_PHRASE, req) ==
    LET params == mergeParams(req)
        providedCode ==
            IF params.code_phrase # <<>> THEN params.code_phrase
            ELSE IF params.CODE_PHRASE # <<>> THEN params.CODE_PHRASE
            ELSE IF params.code # <<>> THEN params.code
            ELSE params.auth
    IN  CODE_PHRASE = <<>> \/ providedCode = CODE_PHRASE

\* getCacheKey lines 45-51 with the id and the transformerOptions of lines
\* 487-494: every parameter but id, examples, exampleData, payload and data
getCacheKey(params) ==
    <<NullishCoalesce(params.id, "default"),
      [k \in DOMAIN params \ {"id", "examples", "payload"} |-> params[k]]>>

\* the response of request r is sent
Respond(r, status) ==
    [service.requests[r] EXCEPT !.pc = "done", !.status = status]

\* the entry handler (part_012 lines 93-548) from the arrival of request r
\* to its response or to its first await (getTransformer lines 59-70)
entry(r, req) ==
    LET params == mergeParams(req)
        cacheKey == getCacheKey(params)
        this == [service.requests[r] EXCEPT !.req = req]
        cached == {t \in service.transformers : t[1] = cacheKey}
        next == IF params.examples # <<>> THEN "seed" ELSE "message"
    IN  /\ service.requests[r].pc = "none"
        /\ service' =
             CASE req.path \notin {"/health", "/help"} /\ ~checkAuth(service.CODE_PHRASE, req) ->
                    [service EXCEPT !.requests[r] = [this EXCEPT !.pc = "done", !.status = 401]]
               [] req.path \in {"/health", "/help"} ->
                    [service EXCEPT !.requests[r] = [this EXCEPT !.pc = "done", !.status = 200]]
               [] req.path # "/" ->
                    [service EXCEPT !.requests[r] = [this EXCEPT !.pc = "done", !.status = 404]]
               [] req.method = "get" /\ params.payload = <<>> ->
                    [service EXCEPT !.requests[r] = [this EXCEPT !.pc = "done", !.status = 200]]
               [] params.payload = <<>> ->
                    [service EXCEPT !.requests[r] = [this EXCEPT !.pc = "done", !.status = 500]]
               [] cached = {} ->
                    [service EXCEPT
                       !.constructed = Append(@, cacheKey),
                       !.requests[r] = [this EXCEPT !.pc = "init",
                                                    !.transformer = Len(service.constructed) + 1]]
               [] OTHER ->
                    [service EXCEPT
                       !.requests[r] = [this EXCEPT !.pc = next,
                                                    !.transformer = (CHOOSE t \in cached : TRUE)[2]]]
        /\ UNCHANGED <<inst, chat, enableGrounding, groundingConfig, lastResponseMetadata,
                       cumulativeUsage, call, obs, created, passed, given, session, text,
                       result>>

\* the service starts with CODE_PHRASE configured or not, and an empty Map
ServiceInit ==
    /\ AITransformFactory([maxRetries |-> <<>>, retryDelay |-> <<>>,
                           asyncValidator |-> FALSE, onlyJSON |-> <<>>])
    /\ \E CODE_PHRASE \in Opt({"secret"}) :
         service = [NoService EXCEPT
                      !.CODE_PHRASE = CODE_PHRASE,
                      !.requests = [r \in Requests |->
                                      [pc |-> "none", req |-> <<>>, status |-> 0,
                                       transformer |-> 0]]]
    /\ text = NotAString("undefined")
    /\ result = NotExtracted

\* The requests: a path, a method, and parameters in the query and in the
\* body. The phrase is given nowhere, in the query, in the body, in the query
\* with another value for the same parameter in the body, or wrongly.
RequestInputs ==
    LET none == [code_phrase |-> <<>>, CODE_PHRASE |-> <<>>, code |-> <<>>,
                 auth |-> <<>>, payload |-> <<>>, id |-> <<>>, modelName |-> <<>>,
                 examples |-> <<>>]
        Query(given_in) ==
            CASE given_in = "query" -> [none EXCEPT !.code_phrase = <<"secret">>]
              [] given_in = "overridden" -> [none EXCEPT !.code = <<"secret">>]
              [] OTHER -> none
        Body(given_in) ==
            CASE given_in = "body" -> [none EXCEPT !.auth = <<"secret">>]
              [] given_in = "overridden" -> [none EXCEPT !.code = <<"wrong">>]
              [] given_in = "wrong" -> [none EXCEPT !.CODE_PHRASE = <<"wrong">>]
              [] OTHER -> none
        phrases == {"none", "query", "body", "overridden", "wrong"}
    IN  {[path |-> path, method |-> "get", query |-> Query(g), body |-> Body(g)] :
            path \in {"/", "/health", "/help", "/x"}, g \in phrases}
        \cup {[path |-> "/", method |-> "post", query |-> Query(g), body |-> Body(g)] :
                g \in phrases}
        \cup {[path |-> "/", method |-> "post", query |-> Query(g),
               body |-> [Body(g) EXCEPT !.payload = <<"p">>, !.id = key[1],
                                        !.modelName = key[2], !.examples = examples]] :
                g \in phrases, key \in {<<<<>>, <<>>>>, <<<<"b">>, <<>>>>, <<<<>>, <<"m">>>>},
                examples \in Opt({"e"})}

\* A request arrives; the init(), seed() or message() a request awaits
\* settles, and the handler goes on to its next await or to its response.
ServiceNext ==
    \/ \E r \in Requests :
         /\ service.requests[r].pc = "none"
         /\ \E req \in RequestInputs : entry(r, req)
    \/ \E r \in Requests, ok \in BOOLEAN :
         \* await transformer.init() (line 64), then transformers.set (line 65)
         /\ service.requests[r].pc = "init"
         /\ service' =
              IF ok
              THEN LET cacheKey == getCacheKey(mergeParams(service.requests[r].req)) IN
                   [service EXCEPT
                      !.transformers = {t \in @ : t[1] # cacheKey}
                                         \cup {<<cacheKey, service.requests[r].transformer>>},
                      !.requests[r].pc =
                          IF mergeParams(service.requests[r].req).examples # <<>>
                          THEN "seed" ELSE "message"]
              ELSE [service EXCEPT !.requests[r] = Respond(r, 500)]
         /\ UNCHANGED <<inst, chat, enableGrounding, groundingConfig, lastResponseMetadata,
                        cumulativeUsage, call, obs, created, passed, given, session, text,
                        result>>
    \/ \E r \in Requests, ok \in BOOLEAN :
         \* await transformer.seed(exampleSet) (line 524)
         /\ service.requests[r].pc = "seed"
         /\ service' = IF ok THEN [service EXCEPT !.requests[r].pc = "message"]
                       ELSE [service EXCEPT !.requests[r] = Respond(r, 500)]
         /\ UNCHANGED <<inst, chat, enableGrounding, groundingConfig, lastResponseMetadata,
                        cumulativeUsage, call, obs, created, passed, given, session, text,
                        result>>
    \/ \E r \in Requests, ok \in BOOLEAN :
         \* await transformer.message(inputPayload) (line 529)
         /\ service.requests[r].pc = "message"
         /\ service' = [service EXCEPT !.requests[r] = Respond(r, IF ok THEN 200 ELSE 500)]
         /\ UNCHANGED <<inst, chat, enableGrounding, groundingConfig, lastResponseMetadata,
                        cumulativeUsage, call, obs, created, passed, given, session, text,
                        result>>

SpecService == ServiceInit /\ [][ServiceNext]_vars

\* C28: with a CODE_PHRASE configured, a request to a path other than /health
\* and /help whose parameters, those of the body overriding those of the
\* query, hold the phrase under none of code_phrase, CODE_PHRASE, code and
\* auth is answered 401 and obtains no transformer; a request to /health or
\* /help is answered 200.
C28_UnauthorizedRejected ==
    \A r \in Requests :
        LET q == service.requests[r]
            Merged(k) == IF q.req.body[k] # <<>> THEN q.req.body[k] ELSE q.req.query[k]
            lacks == \A k \in {"code_phrase", "CODE_PHRASE", "code", "auth"} :
                        Merged(k) # service.CODE_PHRASE
        IN  (q.pc # "none" /\ service.CODE_PHRASE # <<>>) =>
                /\ (q.req.path \notin {"/health", "/help"} /\ lacks) =>
                      q.pc = "done" /\ q.status = 401 /\ q.transformer = 0
                /\ q.req.path \in {"/health", "/help"} =>
                      q.pc = "done" /\ q.status = 200

\* a request whose body overrides the phrase of its query was refused, and a
\* request to /health without the phrase was answered
C28_Witness ==
    /\ service.CODE_PHRASE # <<>>
    /\ \E r, h \in Requests :
         /\ service.requests[r].pc = "done"
         /\ service.requests[r].req.path = "/"
         /\ service.requests[r].req.query.code = service.CODE_PHRASE
         /\ service.requests[r].req.body.code = <<"wrong">>
         /\ service.requests[r].status = 401
         /\ service.requests[h].pc = "done"
         /\ service.requests[h].req.path = "/health"
         /\ service.requests[h].req.query.code_phrase = <<>>
         /\ service.requests[h].status = 200

\* C29: for every cache key the constructor and init() have run at most once,
\* the requests with the same key use the same transformer, and requests
\* whose keys differ use different transformers.
C29_OneTransformerPerKey ==
    /\ \A i, j \in 1..Len(service.constructed) :
         service.constructed[i] = service.constructed[j] => i = j
    /\ \A r, o \in Requests :
         LET q == service.requests[r]
             p == service.requests[o]
         IN  (q.transformer # 0 /\ p.transformer # 0) =>
                (getCacheKey(mergeParams(q.req)) = getCacheKey(mergeParams(p.req))
                    <=> q.transformer = p.transformer)

\* ------------------------------------------ several fenced regions in a text
\* at most this many fenced regions in one text
MaxRegions == 2

\* a fenced region: the opening fence, tagged json or not, and the content and
\* the closing fence on lines of their own
Region(tagged, content) ==
    (IF tagged THEN JsonFence ELSE Fence) \o <<"\n">> \o content \o <<"\n">> \o Fence

\* what the regions hold: two objects, an array and prose
RegionContents ==
    { <<"{", "\"", "a", "\"", ":", "1", "}">>,
      <<"{", "\"", "b", "\"", ":", "2", "}">>,
      <<"[", "1", "]">>,
      <<"n", "o">> }

FencesInit ==
    /\ InitInstance
    /\ service = NoService
    /\ inst.maxRetries = DEFAULT_MAX_RETRIES
    /\ inst.retryDelay = DEFAULT_RETRY_DELAY
    /\ ~inst.asyncValidator
    /\ text = String(<<"o", "k">>)
    /\ result = NotExtracted

\* the reply goes on with one more fenced region
AppendRegion ==
    /\ Len(CodeBlocks(text.chars, Fence, 1)) < MaxRegions
    /\ \E tagged \in BOOLEAN, content \in RegionContents :
         text' = String(text.chars \o <<"\n">> \o Region(tagged, content))
    /\ result' = NotExtracted
    /\ UNCHANGED <<inst, chat, enableGrounding, groundingConfig, lastResponseMetadata,
                   cumulativeUsage, call, obs, created, passed, given, session, service>>

FencesNext == AppendRegion \/ Extract

SpecFences == FencesInit /\ [][FencesNext]_vars

\* C31: when the text is not itself a JSON object or array and holds several
\* fenced regions, tagged json or not, extractJSON returns the value of the
\* first region, in the order in which the regions stand in the text, whose
\* content is a JSON object or array.
C31_FencesInOrderOfAppearance ==
    LET regions == CodeBlocks(text.chars, Fence, 1) IN
    (/\ result # NotExtracted
     /\ ~isJSONStr(trim(text.chars))
     /\ \E k \in DOMAIN regions : isJSONStr(regions[k]))
        => result = Returned(FirstJSONStr(regions)[1])

\* ------------------------------------------------------ the depth-aware scan
\* the texts that are scanned have at most this many characters
MaxScanLength == 5

\* every text of braces, brackets, quotes and backslashes
ScanTexts ==
    UNION {[1..n -> {"{", "}", "[", "]", "\"", "\\"}] : n \in 0..MaxScanLength}

Scanned(startPos, span) == [s |-> "scanned", v |-> <<startPos, span>>, msg |-> <<>>]

ScanInit ==
    /\ InitInstance
    /\ service = NoService
    /\ given.maxRetries = <<>>
    /\ given.retryDelay = <<>>
    /\ ~inst.asyncValidator
    /\ text \in {String(chars) : chars \in ScanTexts}
    /\ result = NotExtracted

\* findCompleteJSONStructures lines 1380-1386: one pass of its loop, at a
\* position that holds an opening brace or bracket
Scan ==
    /\ \E startPos \in 1..Len(text.chars) :
         /\ text.chars[startPos] \in {"{", "["}
         /\ result' = Scanned(startPos, extractCompleteStructure(text.chars, startPos))
    /\ UNCHANGED <<inst, chat, enableGrounding, groundingConfig, lastResponseMetadata,
                   cumulativeUsage, call, obs, created, passed, given, session, service,
                   text>>

SpecScan == ScanInit /\ [][Scan]_vars

\* C32: the scan started at an opening brace or bracket returns the span from
\* there to the first position where the depth of that kind of bracket is
\* back at zero. Only the brackets outside double-quoted strings are counted,
\* a backslash inside a string takes the next character out of consideration
\* (so an escaped quote does not end the string), and when the depth is never
\* back at zero no span is returned.
C32_SpanToFirstReturnToZero ==
    result.s = "scanned" =>
        LET t == text.chars
            startPos == result.v[1]
            open == t[startPos]
            close == IF open = "{" THEN "}" ELSE "]"
            \* where the scan stands once it has read the character at j
            mode[j \in (startPos - 1)..Len(t)] ==
                IF j = startPos - 1 THEN "outside"
                ELSE CASE mode[j - 1] = "escape" -> "string"
                       [] mode[j - 1] = "string" /\ t[j] = "\\" -> "escape"
                       [] mode[j - 1] = "string" /\ t[j] = "\"" -> "outside"
                       [] mode[j - 1] = "outside" /\ t[j] = "\"" -> "string"
                       [] OTHER -> mode[j - 1]
            counted(ch, j) ==
                Cardinality({k \in startPos..j : t[k] = ch /\ mode[k - 1] = "outside"})
            zero == {j \in startPos..Len(t) : counted(open, j) = counted(close, j)}
        IN  result.v[2] = IF zero = {} THEN <<>>
                          ELSE <<SubSeq(t, startPos,
                                        CHOOSE j \in zero : \A k \in zero : j <= k)>>

\* the scan of {"}"} gave the whole text: the brace inside the string did not
\* close the object
C32_Witness ==
    /\ text.chars = <<"{", "\"", "}", "\"", "}">>
    /\ result = Scanned(1, <<text.chars>>)

\* ------------------------------------- grounding for one message and the chat
\* seed() and message() with or without enableGrounding for this message, one
\* after another. Every init(true) of the override and of its restoration
\* creates a chat with an empty history (lines 368-392); a chat.sendMessage
\* that returns a reply leaves the request and the reply in the history.
GroundedNext ==
    \/ \E examples \in ExampleLists : seedWithExamples(examples)
    \/ \E c \in SeqCalls, optGrounding \in Opt(BOOLEAN), optMaxRetries \in Opt({0}),
          withValidator \in BOOLEAN :
         LET options == [NoOptions EXCEPT !.enableGrounding = optGrounding,
                                          !.maxRetries = optMaxRetries]
         IN  /\ session.chat # <<>>
             /\ Len(session.chat[1].history) + 4 <= MaxHistory
             /\ prepareAndValidateMessageWith(c, "message", "object", options, withValidator)
             /\ passed' = [passed EXCEPT ![c] = options]
             /\ UNCHANGED <<created, given, session, service, text, result>>
    \/ \E c \in SeqCalls :
         /\ GroundingInitReturn(c)
         /\ session' = ChatsCreate(session, <<>>, "init(true)")
         /\ UNCHANGED <<created, passed, given, service, text, result>>
    \/ \E c \in SeqCalls :
         /\ ModelReturn(c)
         /\ session' =
              IF /\ obs'[c].failedAt = call[c].attempt
                 /\ Contains(obs'[c].failMsg[1], TransportError.msg)
              THEN session
              ELSE [session EXCEPT
                      !.chat[1].history = @ \o <<[role |-> "user", text |-> <<"payload">>],
                                                 [role |-> "model", text |-> <<"reply">>]>>,
                      !.last = "message"]
         /\ UNCHANGED <<created, passed, given, service, text, result>>
    \/ \E c \in SeqCalls : ValidatorReturn(c) /\ UNCHANGED aux
    \/ \E c \in SeqCalls : BackoffReturn(c) /\ UNCHANGED aux
    \/ \E c \in SeqCalls :
         /\ RestoreOnSuccessReturn(c)
         /\ session' = ChatsCreate(session, <<>>, "init(true)")
         /\ UNCHANGED <<created, passed, given, service, text, result>>
    \/ \E c \in SeqCalls :
         /\ RestoreOnFailureReturn(c)
         /\ session' = ChatsCreate(session, <<>>, "init(true)")
         /\ UNCHANGED <<created, passed, given, service, text, result>>

SpecGrounded == SessionInit /\ [][GroundedNext]_vars

\* C38: a message() call whose enableGrounding option differs from the setting
\* of the instance makes its first attempt on a chat with an empty history,
\* and when it settles the history of the chat is empty again (the seeded
\* examples and the turns of the conversation are gone); no step of a call
\* changes exampleCount.
C38_OverrideEmptiesHistory ==
    [][\A c \in SeqCalls :
         /\ (call[c].pc = "groundingInit" /\ call'[c].pc = "model") =>
              session'.chat[1].history = <<>>
         /\ (call[c].original # <<>> /\ InFlight(c) /\ Settled(c)') =>
              session'.chat[1].history = <<>>
         /\ (InFlight(c) \/ InFlight(c)') =>
              session'.exampleCount = session.exampleCount]_vars

\* ------------------------------------- truncation recovery, pass after pass
\* The loop of attemptJSONRecovery as steps. While it runs, result holds the
\* loop variable i, the working text and, for the observer, after how many
\* removals the closing characters were tried.
Trimming(i, workingText, closedAt) ==
    [s |-> "trimming", v |-> <<i, workingText, closedAt>>, msg |-> <<>>]
Recovered(i, workingText, closedAt, value) ==
    [s |-> "recovered", v |-> <<i, workingText, closedAt, value>>, msg |-> <<>>]
GaveUp(i, workingText, closedAt) ==
    [s |-> "null", v |-> <<i, workingText, closedAt>>, msg |-> <<>>]

\* line 1185: the condition of the loop
TrimConditionMutant(i, workingText) == Len(workingText) > MinRepairLength
TrimCondition(i, workingText) == i < maxAttempts /\ Len(workingText) > MinRepairLength

\* lines 1108-1182: the text as it is, then the trimmed text with its open
\* string and structures closed; when neither parses the loop is entered
RecoveryStart ==
    /\ result.s = "none"
    /\ text.type = "string"
    /\ result' =
         Once(trim(text.chars), LAMBDA workingText :
            IF text.chars = <<>> THEN GaveUp(0, <<>>, {})
            ELSE IF JSONValid(text.chars)
            THEN Recovered(0, text.chars, {}, JSON_parse(text.chars)[1])
            ELSE LET st == Counts(workingText)
                     open == st.braces > 0 \/ st.brackets > 0 \/ st.inString
                 IN  IF /\ open
                        /\ Len(workingText) > MinRepairLength
                        /\ JSONValid(fixedText(workingText))
                     THEN Recovered(0, workingText, {0},
                                    JSON_parse(fixedText(workingText))[1])
                     ELSE Trimming(0, workingText, {}))
    /\ UNCHANGED <<inst, chat, enableGrounding, groundingConfig, lastResponseMetadata,
                   cumulativeUsage, call, obs, created, passed, given, session, service,
                   text>>

\* lines 1185-1265: one pass of the loop, or its end
TrimStep ==
    /\ result.s = "trimming"
    /\ \E i \in {result.v[1]}, closedAt \in {result.v[3]},
          workingText \in {SubSeq(result.v[2], 1, Len(result.v[2]) - 1)} :
         result' =
           IF ~TrimCondition(i, result.v[2]) THEN GaveUp(i, result.v[2], closedAt)
           ELSE LET st == Counts(workingText)
                IN  IF /\ st.braces = 0 /\ st.brackets = 0 /\ ~st.inString
                       /\ JSONValid(workingText)
                    THEN Recovered(i, workingText, closedAt, JSON_parse(workingText)[1])
                    ELSE IF i > CloseAfter
                    THEN IF JSONValid(fixedText(workingText))
                         THEN Recovered(i, workingText, closedAt \cup {i + 1},
                                        JSON_parse(fixedText(workingText))[1])
                         ELSE Trimming(i + 1, workingText, closedAt \cup {i + 1})
                    ELSE Trimming(i + 1, workingText, closedAt)
    /\ UNCHANGED <<inst, chat, enableGrounding, groundingConfig, lastResponseMetadata,
                   cumulativeUsage, call, obs, created, passed, given, session, service,
                   text>>

RecoveryNext ==
    \/ Truncate /\ result.s # "trimming"
    \/ RecoveryStart
    \/ TrimStep

\* a pass of the loop awaits nothing: once entered, the loop runs on
SpecRecovery == ParserInit /\ [][RecoveryNext]_vars /\ WF_vars(TrimStep)

\* C39: truncation recovery always terminates. Its loop removes one character
\* from the end in every pass and at most maxAttempts (100) of them; when no
\* candidate parses, the recovery returns null, and extractJSON, when its
\* other strategies gave nothing, throws instead of returning a value.
C39_RecoveryTerminates ==
    /\ [](result.s \in {"trimming", "recovered", "null"} =>
            LET i == result.v[1]
                removed == Len(trim(text.chars)) - Len(result.v[2])
            IN  /\ i <= maxAttempts
                /\ removed <= maxAttempts
                /\ result.s \in {"trimming", "null"} =>
                     /\ removed = i
                     /\ result.v[2] = SubSeq(trim(text.chars), 1, Len(trim(text.chars)) - i)
                /\ (result.s = "recovered" /\ JSONValid(text.chars)) => removed <= 0
                /\ (result.s = "recovered" /\ ~JSONValid(text.chars)) =>
                     /\ removed \in {i, i + 1}
                     /\ attemptJSONRecovery(text.chars) = <<result.v[4]>>
                /\ result.s = "null" =>
                     /\ attemptJSONRecovery(text.chars) = <<>>
                     /\ (text.chars # <<>> /\ FirstJSONStr(Candidates(text.chars)) = <<>>)
                          => extractJSONText(text).s = "threw")
    /\ (result.s = "trimming") ~> (result.s \in {"recovered", "null"})

\* the loop gave up after maxAttempts passes on a text that was still longer
\* than two characters
C39_Witness ==
    /\ result.s = "null"
    /\ result.v[1] = maxAttempts
    /\ Len(result.v[2]) > MinRepairLength

\* C40: in the loop of truncation recovery the closing characters (the quote
\* of an open string and the missing closers) are tried on the shortened text
\* once more than 5 characters have been removed, that is after the 6th
\* removal and every later one, and after none of the first 5.
C40_ClosedFromSixthTrim ==
    result.s = "trimming" =>
        result.v[3] = {n \in 1..result.v[1] : n > 5}

=============================================================================
